---- MODULE Spec2Model ----
(***************************************************************************)
(* A model of factoreally's generator and spec construction:               *)
(*   - the hint chain (hints/__init__.py and the hint classes),            *)
(*   - the field-factory tree (factory_spec.py),                           *)
(*   - the assembly of hint lists from analyzer results (json_spec.py).    *)
(* Randomness (random.random, random.randint, random.choice) is a draw     *)
(* chosen nondeterministically, one draw per hint invocation.              *)
(***************************************************************************)
EXTENDS Integers, Sequences, FiniteSets, TLC

VARIABLES
    chain,      \* the last run of generate_value_from_hints: hints, draws, result, call log
    fields,     \* FieldHints of the spec being written: field path -> hint list
    phase,      \* "spec" while fields are added, "ready" once the FactorySpec exists
    record,     \* the value returned by the last FactorySpec.build()
    emitted,    \* the last hint list yielded by _get_hints with the evidence behind it
    factory,    \* the Factory objects: their overrides, and the last Factory.build()
    direct,     \* the last process_value call made on one NUMBER or DURATION hint
    extracted   \* the run of extract_data: the model's oracle, the items, the ExtractedData

vars == <<chain, fields, phase, record, emitted, factory, direct, extracted>>

(***************************************************************************)
(* Bounds of the model.                                                    *)
(***************************************************************************)
\* longest hint list run by the chain specification
MaxChainLen == 3

(***************************************************************************)
(* Values.  Every value is a record tagged by k, so that values of         *)
(* different Python types can live in one set.                             *)
(***************************************************************************)
None == [k |-> "none"]
\* hints/base.py: NULL = Sentinel("NullValueMarker"), MISSING = Sentinel(...)
NULL == [k |-> "NULL"]
MISSING == [k |-> "MISSING"]
IntV(n) == [k |-> "int", n |-> n]
StrV(s) == [k |-> "str", s |-> s, n |-> 0]
\* the n-th string a pattern generator of the given family can produce
Pat(family, n) == [k |-> "str", s |-> family, n |-> n]
\* str(n) of an integer n
StrOfInt(n) == [k |-> "str", s |-> "digits", n |-> n]
List(xs) == [k |-> "list", xs |-> xs]
\* a dict; dyn records whether _build_dynamic_object produced it
Raise(e) == [k |-> "raise", e |-> e]

IsInt(v) == v.k = "int"
IsSentinel(v) == v \in {NULL, MISSING}

(***************************************************************************)
(* Hints.  One record shape for all hint classes; a class reads only its   *)
(* own payload.  pct is in thousandths of a percent (the analyzers round   *)
(* to three decimals).                                                     *)
(***************************************************************************)
Hint(type, pct, min, max, vals) ==
    [type |-> type, pct |-> pct, min |-> min, max |-> max, vals |-> vals]

NullHint(pct) == Hint("NULL", pct, 0, 0, <<>>)
MissingHint(pct) == Hint("MISSING", pct, 0, 0, <<>>)
ConstantValueHint(val) == Hint("CONST", 0, 0, 0, <<val>>)
ChoiceHint(choices) == Hint("CHOICE", 0, 0, 0, choices)
NumberHint(min, max) == Hint("NUMBER", 0, min, max, <<>>)
NumberStringHint(min, max) == Hint("NUMSTR", 0, min, max, <<>>)
ArrayHint == Hint("ARRAY", 0, 0, 0, <<>>)
ObjectHint == Hint("OBJECT", 0, 0, 0, <<>>)
PatternHint(type) == Hint(type, 0, 0, 0, <<>>)

\* the hint classes whose process_value is: if value is None: value = <generated>;
\* return call_next(value)
PatternTypes ==
    {"ALPHA", "DATE", "DATETIME", "DURATION", "UUID4", "MAC", "AUTH0_ID", "VERSION", "TEXT"}
GeneratorTypes == {"CONST", "CHOICE", "NUMBER", "NUMSTR"} \cup PatternTypes

TypesOf(hints) == {hints[i].type : i \in 1..Len(hints)}

(***************************************************************************)
(* Draws.  A draw stands for one outcome of the random module.  For        *)
(* random.random() * 100, which lies in [0, 100), the three draws are the  *)
(* outcomes 0, 50 and just below 100 (DrawPct, in thousandths of a         *)
(* percent): below, at and above a pct of 50, and at and above a pct of 0. *)
(***************************************************************************)
Pct(percent) == percent * 1000
DrawPct(d) ==
    CASE d = 0 -> Pct(0)
      [] d = 1 -> Pct(50)
      [] OTHER -> Pct(100) - 1

Draws == {0, 1, 2}

(***************************************************************************)
(* process_value of each hint class, as the step it takes on (value, draw):*)
(*   CallNext(v)  return call_next(v)                                      *)
(*   Return(v)    return v without calling call_next                       *)
(* conv tells that the value returned is converted by the caller class     *)
(* (NumberStringHint) before it is returned.                               *)
(***************************************************************************)
CallNext(v) == [next |-> TRUE, v |-> v, conv |-> FALSE]
Return(v) == [next |-> FALSE, v |-> v, conv |-> FALSE]

\* AnalysisHint.process_value (ARRAY and OBJECT inherit it)
AnalysisHint_process_value(h, value, draw) ==
    CallNext(value)

NullHint_process_value(h, value, draw) ==
    IF DrawPct(draw) <= h.pct
    THEN Return(NULL)
    ELSE CallNext(value)

MissingHint_process_value(h, value, draw) ==
    IF DrawPct(draw) > h.pct
    THEN Return(MISSING)
    ELSE CallNext(value)

ConstantValueHint_process_value(h, value, draw) ==
    CallNext(IF value = None THEN h.vals[1] ELSE value)

ChoiceHint_process_value(h, value, draw) ==
    CallNext(IF value = None /\ Len(h.vals) > 0
             THEN h.vals[1 + (draw % Len(h.vals))]
             ELSE value)

\* the integer a NUMBER hint with integral bounds generates for a draw
NumberDraw(h, draw) == h.min + (draw % (h.max - h.min + 1))

NumberHint_process_value(h, value, draw) ==
    IF value = None
    THEN IF h.min = h.max
         THEN Return(IntV(h.min))
         ELSE CallNext(IntV(NumberDraw(h, draw)))
    ELSE CallNext(value)

\* NumberStringHint.process_value: value = super().process_value(value, call_next),
\* then the conversion of what came back
NumberStringHint_process_value(h, value, draw) ==
    [NumberHint_process_value(h, value, draw) EXCEPT !.conv = TRUE]

\* if isinstance(value, int | float): value = str(value)
NumberStringHint_convert(value) ==
    IF IsInt(value) THEN StrOfInt(value.n) ELSE value

PatternHint_process_value(h, value, draw) ==
    CallNext(IF value = None THEN Pat(h.type, draw) ELSE value)

process_value(h, value, draw) ==
    CASE h.type = "NULL" -> NullHint_process_value(h, value, draw)
      [] h.type = "MISSING" -> MissingHint_process_value(h, value, draw)
      [] h.type = "CONST" -> ConstantValueHint_process_value(h, value, draw)
      [] h.type = "CHOICE" -> ChoiceHint_process_value(h, value, draw)
      [] h.type = "NUMBER" -> NumberHint_process_value(h, value, draw)
      [] h.type = "NUMSTR" -> NumberStringHint_process_value(h, value, draw)
      [] h.type \in PatternTypes -> PatternHint_process_value(h, value, draw)
      [] OTHER -> AnalysisHint_process_value(h, value, draw)

(***************************************************************************)
(* _create_hint_chain(hints[i..])(value), with draws[i] the draw of hint   *)
(* i.  The log has one entry per process step, in call order: the hint's   *)
(* position, the value it was called with and the value it returned; the   *)
(* entry with i = Len(hints) + 1 is the identity at the end of the chain.  *)
(***************************************************************************)
\* a chain that iterates over the whole list: a value returned without call_next
\* is handed to the next hint instead of ending the run
RECURSIVE HintChain_NoEarlyExit(_, _, _, _)
HintChain_NoEarlyExit(hints, i, value, draws) ==
    IF i > Len(hints)
    THEN [res |-> value, calls |-> <<[i |-> i, seed |-> value, ret |-> value]>>]
    ELSE LET step == process_value(hints[i], value, draws[i])
             rest == HintChain_NoEarlyExit(hints, i + 1, step.v, draws)
             res == IF step.conv THEN NumberStringHint_convert(rest.res) ELSE rest.res
         IN  [res |-> res,
              calls |-> <<[i |-> i, seed |-> value, ret |-> res]>> \o rest.calls]

RECURSIVE HintChain(_, _, _, _)
HintChain(hints, i, value, draws) ==
    IF i > Len(hints)
    THEN [res |-> value, calls |-> <<[i |-> i, seed |-> value, ret |-> value]>>]
    ELSE LET step == process_value(hints[i], value, draws[i])
             rest == IF step.next
                     THEN HintChain(hints, i + 1, step.v, draws)
                     ELSE [res |-> step.v, calls |-> <<>>]
             res == IF step.conv THEN NumberStringHint_convert(rest.res) ELSE rest.res
         IN  [res |-> res,
              calls |-> <<[i |-> i, seed |-> value, ret |-> res]>> \o rest.calls]

\* generate_value_from_hints(hints) under the given draws
generate_value_from_hints(hints, draws) == HintChain(hints, 1, None, draws)

\* the draws a hint consumes
DrawsOf(h) ==
    IF h.type \in {"NULL", "MISSING", "CHOICE", "NUMBER", "NUMSTR"} \cup PatternTypes
    THEN Draws ELSE {0}

DrawVectors(hints) ==
    {d \in [1..Len(hints) -> Draws] : \A i \in 1..Len(hints) : d[i] \in DrawsOf(hints[i])}

\* every value generate_value_from_hints(hints) can return
ChainResults(hints) ==
    {generate_value_from_hints(hints, d).res : d \in DrawVectors(hints)}

(***************************************************************************)
(* Field paths are sequences of tokens: a key name, or one of the          *)
(* delimiters ".", "[]" and "{}" ("a[].b" is <<"a", "[]", ".", "b">>).     *)
(***************************************************************************)
Delimiters == {".", "[]", "{}"}

\* the text before the first delimiter: nothing, or one key name
NameOf(tokens) == IF tokens = <<>> THEN "" ELSE tokens[1]

\* _find_delimiter_positions, then the earliest position (0 when there is none)
FirstDelimiter(fp) ==
    IF \E i \in 1..Len(fp) : fp[i] \in Delimiters
    THEN CHOOSE i \in 1..Len(fp) :
            /\ fp[i] \in Delimiters
            /\ \A j \in 1..(i - 1) : fp[j] \notin Delimiters
    ELSE 0

\* _parse_field_path_components with _split_by_delimiter_type
parse_field_path_components(fp) ==
    IF fp \in {<<"[]">>, <<"{}">>}
    THEN [child |-> "", rest |-> fp]
    ELSE LET pos == FirstDelimiter(fp)
         IN  IF pos = 0
             THEN [child |-> NameOf(fp), rest |-> <<>>]
             ELSE IF fp[pos] = "."
                  THEN [child |-> NameOf(SubSeq(fp, 1, pos - 1)),
                        rest |-> SubSeq(fp, pos + 1, Len(fp))]
                  ELSE [child |-> NameOf(SubSeq(fp, 1, pos - 1)),
                        rest |-> SubSeq(fp, pos, Len(fp))]

\* _parse_field_paths: the node's own hints (the "" key) ...
OwnHints(fh) == IF <<>> \in DOMAIN fh THEN fh[<<>>] ELSE <<>>

\* ... and the names of its children ...
ChildNames(fh) ==
    {parse_field_path_components(fp).child : fp \in DOMAIN fh \ {<<>>}}

\* ... each with its field hints, keyed by the remainder of the path
ChildFields(fh, c) ==
    LET mine == {fp \in DOMAIN fh \ {<<>>} : parse_field_path_components(fp).child = c}
        rests == {parse_field_path_components(fp).rest : fp \in mine}
    IN  [r \in rests |->
            fh[CHOOSE fp \in mine : parse_field_path_components(fp).rest = r]]

\* FactorySpec._get_fixed_length: -1 stands for None
get_fixed_length(hints) ==
    IF \E i \in 1..Len(hints) : hints[i].type = "NUMBER"
    THEN LET i == CHOOSE x \in 1..Len(hints) :
                    /\ hints[x].type = "NUMBER"
                    /\ \A y \in 1..(x - 1) : hints[y].type # "NUMBER"
         IN  IF hints[i].min = hints[i].max THEN hints[i].max ELSE -1
    ELSE -1

\* field_path.removeprefix(marker).removeprefix(".") for the paths that start
\* with the marker ("[]" in _prepare_array, "{}" in _prepare_dynamic_object)
StripElementPrefix(fp, marker) ==
    IF fp # <<>> /\ fp[1] = marker
    THEN LET t == Tail(fp)
         IN  IF t # <<>> /\ t[1] = "." THEN Tail(t) ELSE t
    ELSE fp

\* nested_object_field_hints of _prepare_array / _prepare_dynamic_object
ElementFields(cf, marker) ==
    LET keys == {StripElementPrefix(fp, marker) : fp \in DOMAIN cf}
    IN  [key \in keys |->
            cf[CHOOSE fp \in DOMAIN cf : StripElementPrefix(fp, marker) = key]]

(***************************************************************************)
(* FactorySpec.build.  The result of building a node is a record           *)
(*   kind   "array", "dynamic", "object" or "leaf": the branch of build    *)
(*   self   what the node's own hint chain returned (NotRun if not run)    *)
(*   kids   for a static object: child name -> what the child's build      *)
(*          returned                                                       *)
(*   out    the value build returns, or Raise(e) for an exception          *)
(* and FactorySpec_build gives every result the draws allow.               *)
(***************************************************************************)
NotRun == [k |-> "notrun"]
NoKids == [c \in {} |-> None]
Built(kind, self, kids, out) == [kind |-> kind, self |-> self, kids |-> kids, out |-> out]

NotBuilt == Built("none", NotRun, NoKids, None)

IsRaise(v) == v.k = "raise"
Raises(vals) == {v \in vals : IsRaise(v)}
Returned(vals) == {v \in vals : ~IsRaise(v)}

\* _prepare_array / _prepare_dynamic_object: "skip" (fixed length 0), "error"
\* (SpecValidationError) or "factory"
PrepareElements(hints, fh) ==
    IF get_fixed_length(hints) = 0 THEN "skip"
    ELSE IF "" \notin ChildNames(fh) THEN "error"
    ELSE "factory"

\* a retry loop three times the key count long
KeyAttempts_Triple(size) == size * 3

\* range(object_key_count * 2)
KeyAttempts(size) == size * 2

\* the hints of a dynamic object that generate its keys
KeyHints(hints) ==
    SelectSeq(hints, LAMBDA h : h.type \notin {"OBJECT", "NUMBER", "NULL", "MISSING"})

\* the keys one attempt can generate: the key chain, or the random lowercase
\* string of the fallback
KeyResults(hints) ==
    IF KeyHints(hints) # <<>>
    THEN ChainResults(KeyHints(hints))
    ELSE {Pat("ascii_lowercase", d) : d \in Draws}

\* the inner loop of _build_dynamic_object from attempt n on: a new key with the
\* number of the attempt that made it, or no key after the last attempt
RECURSIVE GenerateKey(_, _, _, _)
GenerateKey(n, taken, size, keyResults) ==
    IF n > KeyAttempts(size)
    THEN {[found |-> FALSE, key |-> None, attempts |-> n - 1]}
    ELSE UNION {IF key \notin taken
                THEN {[found |-> TRUE, key |-> key, attempts |-> n]}
                ELSE GenerateKey(n + 1, taken, size, keyResults) : key \in keyResults}

\* the outer loop from round r on: the key sets it can end with, each with the
\* largest number of attempts spent on one key
RECURSIVE GenerateKeys(_, _, _, _, _)
GenerateKeys(r, taken, attempts, size, keyResults) ==
    IF r > size
    THEN {[keys |-> taken, attempts |-> attempts]}
    ELSE UNION {LET most == IF g.attempts > attempts THEN g.attempts ELSE attempts
                IN  IF g.found
                    THEN GenerateKeys(r + 1, taken \cup {g.key}, most, size, keyResults)
                    ELSE {[keys |-> taken, attempts |-> most]}
                : g \in GenerateKey(1, taken, size, keyResults)}

\* a dict built by _build_dynamic_object: size is the drawn key count
DynamicDict(m, size, attempts) ==
    [k |-> "dict", m |-> m, dyn |-> TRUE, size |-> size, attempts |-> attempts]
StaticDict(m) ==
    [k |-> "dict", m |-> m, dyn |-> FALSE, size |-> 0, attempts |-> 0]

\* _build_leaf on the chain result
LeafValue(self) == IF self = NULL THEN None ELSE self

\* _build_array on the array size the chain returned; elems is every value the
\* element factory can build (empty when there is no element factory)
ArrayValues(size, prepared, elems) ==
    IF size = NULL THEN {None}
    ELSE IF ~IsInt(size) THEN {Raise("TypeError")}
    ELSE IF size.n = 0 THEN {List(<<>>)}
    ELSE IF prepared # "factory" THEN {Raise("RuntimeError")}
    ELSE Raises(elems) \cup {List(xs) : xs \in [1..size.n -> Returned(elems)]}

\* _build_dynamic_object on the key count the chain returned
DynamicValues(size, prepared, hints, elems) ==
    IF size = NULL THEN {None}
    ELSE IF ~IsInt(size) THEN {Raise("TypeError")}
    ELSE IF size.n = 0 THEN {DynamicDict(NoKids, 0, 0)}
    ELSE IF prepared # "factory" THEN {Raise("RuntimeError")}
    ELSE UNION {(IF g.keys # {} THEN Raises(elems) ELSE {})
                \cup {DynamicDict(m, size.n, g.attempts) : m \in [g.keys -> Returned(elems)]}
                : g \in GenerateKeys(1, {}, 0, size.n, KeyResults(hints))}

\* the dict _build_object assembles from what its children returned
ObjectValue(kids) ==
    IF \E c \in DOMAIN kids : IsRaise(kids[c])
    THEN kids[CHOOSE c \in DOMAIN kids : IsRaise(kids[c])]
    ELSE IF \E c \in DOMAIN kids : kids[c] = NULL
    THEN Raise("NotImplementedError")
    ELSE LET present == {c \in DOMAIN kids : kids[c] # MISSING}
         IN  StaticDict([key \in {StrV(c) : c \in present} |-> kids[key.s]])

\* a _build_object that goes on to its children whatever its own chain returned
ObjectResults_IgnoreNull(self, kidsets) ==
    {Built("object", self, kids, ObjectValue(kids)) : kids \in kidsets}

\* _build_object on what the node's own chain returned: kidsets is every
\* combination of values the child factories can return
ObjectResults(self, kidsets) ==
    IF self = NULL
    THEN {Built("object", self, NoKids, None)}
    ELSE {Built("object", self, kids, ObjectValue(kids)) : kids \in kidsets}

\* every combination of one returned value per child
RECURSIVE KidSets(_, _)
KidSets(names, built) ==
    IF names = {} THEN {NoKids}
    ELSE LET c == CHOOSE x \in names : TRUE
         IN  UNION {{[x \in DOMAIN rest \cup {c} |-> IF x = c THEN v ELSE rest[x]]
                        : v \in built[c]}
                    : rest \in KidSets(names \ {c}, built)}

\* _build_array for every size the chain can return
ArrayResults(hints, prepared, elems) ==
    UNION {{Built("array", self, NoKids, out) : out \in ArrayValues(self, prepared, elems)}
            : self \in ChainResults(hints)}

\* _build_dynamic_object for every key count the chain can return
DynamicResults(hints, prepared, elems) ==
    UNION {{Built("dynamic", self, NoKids, out)
                : out \in DynamicValues(self, prepared, hints, elems)}
            : self \in ChainResults(hints)}

RECURSIVE FactorySpec_build(_, _)
FactorySpec_build(fh, depth) ==
    LET hints == OwnHints(fh)
        names == ChildNames(fh)
    IN  IF depth = 0 THEN {Built("none", NotRun, NoKids, Raise("RecursionError"))}
        ELSE IF "ARRAY" \in TypesOf(hints) THEN
            IF PrepareElements(hints, fh) = "error"
            THEN {Built("array", NotRun, NoKids, Raise("SpecValidationError"))}
            ELSE IF PrepareElements(hints, fh) = "skip"
            THEN ArrayResults(hints, "skip", {})
            ELSE UNION {ArrayResults(hints, "factory", {b.out : b \in element})
                        : element \in {FactorySpec_build(
                                ElementFields(ChildFields(fh, ""), "[]"), depth - 1)}}
        ELSE IF "OBJECT" \in TypesOf(hints) THEN
            IF PrepareElements(hints, fh) = "error"
            THEN {Built("dynamic", NotRun, NoKids, Raise("SpecValidationError"))}
            ELSE IF PrepareElements(hints, fh) = "skip"
            THEN DynamicResults(hints, "skip", {})
            ELSE UNION {DynamicResults(hints, "factory", {b.out : b \in element})
                        : element \in {FactorySpec_build(
                                ElementFields(ChildFields(fh, ""), "{}"), depth - 1)}}
        ELSE IF names # {} THEN
            UNION {UNION {UNION {ObjectResults(self, kidsets)
                                    : self \in IF hints # <<>> THEN ChainResults(hints)
                                                               ELSE {NotRun}}
                          : kidsets \in {KidSets(names, built)}}
                   : built \in {[c \in names |->
                        {b.out : b \in FactorySpec_build(ChildFields(fh, c), depth - 1)}]}}
        ELSE {Built("leaf", self, NoKids, LeafValue(self)) : self \in ChainResults(hints)}

(***************************************************************************)
(* The hint lists the chain specification runs: lists of at most           *)
(* MaxChainLen hints with pairwise different tags (a spec document keys    *)
(* the hints of a field by tag), in any order.                             *)
(***************************************************************************)
K1 == StrV("k1")
K2 == StrV("k2")

HintMenu ==
    {NullHint(Pct(p)) : p \in {0, 50, 100}}
    \cup {MissingHint(Pct(p)) : p \in {0, 50, 100}}
    \cup {ConstantValueHint(K1), ChoiceHint(<<K1, K2>>)}
    \cup {NumberHint(1, 2), NumberHint(2, 2), NumberStringHint(1, 2), NumberStringHint(2, 2)}
    \cup {PatternHint(t) : t \in PatternTypes}
    \cup {ArrayHint, ObjectHint}

DistinctTags(hints) ==
    \A i, j \in 1..Len(hints) : i # j => hints[i].type # hints[j].type

\* the pattern recognizer yields at most one hint per field (first match wins)
OnePattern(hints) ==
    \A i, j \in 1..Len(hints) :
        (hints[i].type \in PatternTypes /\ hints[j].type \in PatternTypes) => i = j

ChainLists ==
    UNION {{hs \in [1..n -> HintMenu] : DistinctTags(hs) /\ OnePattern(hs)} : n \in 0..MaxChainLen}

\* the evidence on a field before any analyzer ran, and no hint list for it
NoSample == <<0, 0>>
NoEvidence ==
    [stage |-> "lengths",
     lengths |-> NoSample, length_hint |-> <<>>,
     key_counts |-> NoSample, size_hint |-> <<>>, key_pattern |-> <<>>,
     numeric |-> <<>>, pattern |-> <<>>, alpha |-> <<>>, choice |-> <<>>,
     nulls |-> 0, present |-> 1, records |-> 1, ends |-> "name",
     values |-> {}, verdicts |-> <<>>, hints |-> <<>>]

\* no process_value call made on a hint by itself yet
NoCall == [stage |-> "none", hint |-> <<>>, seed |-> None, variate |-> 0, ret |-> None, next |-> <<>>]

\* extract_data not called yet: the model class given, the items taken so far,
\* the stores (ExtractedData and analyzers), and what came out
NoExtraction ==
    [stage |-> "model", model |-> "none", items |-> <<>>,
     st |-> [ed |-> <<>>, az |-> <<>>], out |-> None]

\* no Factory constructed yet.  made and held are the overrides of the factory
\* at its construction and now, copied those of its copy; on tells which of the
\* two build() ran on, with the arguments override and kwargs
NoFactory ==
    [stage |-> "none", made |-> <<>>, held |-> <<>>, copied |-> <<>>,
     copy_override |-> <<>>, copy_kwargs |-> <<>>,
     on |-> "none", override |-> <<>>, kwargs |-> <<>>,
     data |-> None, out |-> None, again |-> None, log |-> <<>>,
     hint |-> <<>>, vals |-> <<>>, built |-> <<>>]

NoRun == [hints |-> <<>>, draws |-> <<>>, res |-> None, calls |-> <<>>, done |-> FALSE]

(***************************************************************************)
(* Specification of the chain: every step is one call of                   *)
(* generate_value_from_hints on some hint list, under some draws.          *)
(***************************************************************************)
\* which string a pattern generator produces has no influence on a chain run:
\* the chain specification fixes the draw of the pattern hints
ChainDraws(hints) ==
    {d \in DrawVectors(hints) :
        \A i \in 1..Len(hints) : hints[i].type \in PatternTypes => d[i] = 0}

GenerateValue ==
    /\ ~chain.done
    /\ \E hs \in ChainLists : \E d \in ChainDraws(hs) :
          LET r == generate_value_from_hints(hs, d)
          IN  chain' = [hints |-> hs, draws |-> d, res |-> r.res,
                        calls |-> r.calls, done |-> TRUE]
    /\ UNCHANGED <<fields, phase, record, emitted, factory, direct, extracted>>

Init ==
    /\ chain = NoRun
    /\ fields = <<>>
    /\ phase = "spec"
    /\ record = NotBuilt
    /\ emitted = NoEvidence
    /\ factory = NoFactory
    /\ direct = NoCall
    /\ extracted = NoExtraction

NextChain == GenerateValue

SpecChain == Init /\ [][NextChain]_vars

(***************************************************************************)
(* Reading the call log of the last run.                                   *)
(***************************************************************************)
Calls == {chain.calls[x] : x \in 1..Len(chain.calls)}
HintCalls == {e \in Calls : e.i <= Len(chain.hints)}
\* the calls of the continuation made by the process step e
ContinuationCalls(e) == {x \in 1..Len(chain.calls) : chain.calls[x].i = e.i + 1}
\* the process step e returned the sentinel of its own hint class (no other
\* hint of the list can have made it: the tags of a list are pairwise different)
Originates(e) ==
    \/ chain.hints[e.i].type = "NULL" /\ e.ret = NULL
    \/ chain.hints[e.i].type = "MISSING" /\ e.ret = MISSING

\* C1: once a hint of the chain returns the NULL or the MISSING sentinel, that
\* sentinel is the result of the whole chain and no hint after it in the list
\* has its process step invoked.
C1_ShortCircuit ==
    chain.done =>
        \A e \in HintCalls :
            Originates(e) =>
                /\ chain.res = e.ret
                /\ \A f \in Calls : f.i <= e.i

\* a run in which a sentinel was returned by a hint that is not the last of its list
C1_Witness ==
    /\ chain.done
    /\ \E e \in HintCalls : Originates(e) /\ e.i < Len(chain.hints) /\ e.i > 1

\* C2: every generator hint calls its continuation exactly once per process
\* step, with a synthesized value when the seed is null and with the unchanged
\* seed otherwise, for every payload (min = max included).
C2_GeneratorCallsNextOnce ==
    chain.done =>
        \A e \in HintCalls :
            chain.hints[e.i].type \in GeneratorTypes =>
                /\ Cardinality(ContinuationCalls(e)) = 1
                /\ \A x \in ContinuationCalls(e) :
                      IF e.seed = None
                      THEN chain.calls[x].seed \notin {None, NULL, MISSING}
                      ELSE chain.calls[x].seed = e.seed

\* C4: a MISSING hint with payload pct returns MISSING exactly on the draws
\* that fall in the lowest pct percent: always for pct = 100, never for pct = 0.
C4_MissingOmitsAtPct ==
    chain.done =>
        \A e \in HintCalls :
            chain.hints[e.i].type = "MISSING" =>
                (Originates(e) <=> DrawPct(chain.draws[e.i]) < chain.hints[e.i].pct)

(***************************************************************************)
(* Specification of the build: field hints are given to a FactorySpec      *)
(* path by path, then build() runs once.  The FactorySpec is the root of a *)
(* spec or the factory of a nested node, which gets the hints of its own   *)
(* path under <<>> and the element paths with their "[]" or "{}" in front. *)
(***************************************************************************)
\* most field paths of a FactorySpec
MaxFields == 3
\* depth at which the interpreter gives up a recursion (RecursionError)
RecursionLimit == 6

FieldPaths ==
    {<<>>, <<"a">>, <<"a", ".", "b">>, <<"a", "[]">>, <<"a", ".", "{}">>,
     <<"[]">>, <<"[]", ".", "b">>, <<"{}">>}

HalfNull == NullHint(Pct(50))
HalfMissing == MissingHint(Pct(50))

FieldLists ==
    {<<ConstantValueHint(K1), HalfNull, HalfMissing>>,
     <<HalfNull, HalfMissing>>,
     <<ArrayHint, NumberHint(0, 1), HalfNull, HalfMissing>>,
     <<ArrayHint, NumberHint(0, 0)>>,
     <<ObjectHint, NumberHint(1, 2), ChoiceHint(<<K1, K2>>), HalfNull, HalfMissing>>,
     <<ObjectHint, NumberHint(1, 2)>>}

AddField ==
    /\ phase = "spec"
    /\ Cardinality(DOMAIN fields) < MaxFields
    /\ \E fp \in FieldPaths \ DOMAIN fields : \E hs \in FieldLists :
          fields' = [x \in DOMAIN fields \cup {fp} |-> IF x = fp THEN hs ELSE fields[x]]
    /\ UNCHANGED <<chain, phase, record, emitted, factory, direct, extracted>>

Build ==
    /\ phase = "spec"
    /\ \E b \in FactorySpec_build(fields, RecursionLimit) : record' = b
    /\ phase' = "built"
    /\ UNCHANGED <<chain, fields, emitted, factory, direct, extracted>>

NextBuild == AddField \/ Build

SpecBuild == Init /\ [][NextBuild]_vars

(***************************************************************************)
(* Reading the result of the build.                                        *)
(***************************************************************************)
Built_ == phase = "built"
Keys(d) == DOMAIN d.m

\* the paths of a built value below the path it sits at: object keys as P.k,
\* array elements as P[], dynamic-object values as P.{} (relative to the
\* FactorySpec, so without the dot at its own path)
RECURSIVE ValuePaths(_, _)
ValuePaths(v, at) ==
    IF v.k = "dict" /\ v.dyn
    THEN IF Keys(v) = {} THEN {}
         ELSE LET p == IF at = <<>> THEN <<"{}">> ELSE at \o <<".", "{}">>
              IN  {p} \cup UNION {ValuePaths(v.m[key], p) : key \in Keys(v)}
    ELSE IF v.k = "dict"
    THEN UNION {LET p == IF at = <<>> THEN <<key.s>> ELSE at \o <<".", key.s>>
                IN  {p} \cup ValuePaths(v.m[key], p) : key \in Keys(v)}
    ELSE IF v.k = "list"
    THEN IF v.xs = <<>> THEN {}
         ELSE LET p == at \o <<"[]">>
              IN  {p} \cup UNION {ValuePaths(v.xs[i], p) : i \in 1..Len(v.xs)}
    ELSE {}

Prefixes(paths) == UNION {{SubSeq(p, 1, n) : n \in 0..Len(p)} : p \in paths}

\* some dict of the value holds MISSING under a key, or has a sentinel as a
\* dynamic key
RECURSIVE HoldsSentinel(_)
HoldsSentinel(v) ==
    IF v.k = "dict"
    THEN \E key \in Keys(v) :
            \/ v.m[key] = MISSING
            \/ v.dyn /\ IsSentinel(key)
            \/ HoldsSentinel(v.m[key])
    ELSE IF v.k = "list"
    THEN \E i \in 1..Len(v.xs) : HoldsSentinel(v.xs[i])
    ELSE FALSE

\* no build of the field hints stops at a spec validation error or in an
\* endless descent
WellFormed(fh) ==
    \A b \in FactorySpec_build(fh, RecursionLimit) :
        b.out \notin {Raise("SpecValidationError"), Raise("RecursionError")}

\* C3: for every kind of node, when the node's own hint chain yields MISSING the
\* node's build returns MISSING (no exception, no null, no container), and an
\* object omits the key of every child whose build returned MISSING.
C3_MissingReturnedUpward ==
    Built_ =>
        \/ /\ record.self = MISSING => record.out = MISSING
           /\ record.out.k = "dict" =>
                 \A c \in DOMAIN record.kids :
                     record.kids[c] = MISSING => StrV(c) \notin Keys(record.out)
        \/ ~WellFormed(fields)

\* C5: when the own chain of a static object yields NULL, its build returns null
\* without building a child; the enclosing object holds that null at the key
\* and nothing below it.
C5_NullObjectBuildsNoChild ==
    Built_ =>
        /\ (record.kind = "object" /\ record.self = NULL) =>
              (record.out = None /\ record.kids = NoKids)
        /\ record.out.k = "dict" =>
              \A c \in DOMAIN record.kids :
                  record.kids[c] = None =>
                      /\ StrV(c) \in Keys(record.out)
                      /\ record.out.m[StrV(c)] = None
                      /\ \A p \in ValuePaths(record.out, <<>>) : Len(p) > 1 => p[1] # c

\* a static object with children whose own chain yielded NULL
C5_Witness ==
    /\ Built_
    /\ record.kind = "object"
    /\ record.self = NULL
    /\ ChildNames(fields) # {}
    /\ record.out = None

\* C6: no record built from a well-formed spec holds the MISSING sentinel under
\* a key of a static or a dynamic object, and no dynamic key is a sentinel.
C6_NoMissingValue ==
    Built_ => (~HoldsSentinel(record.out) \/ ~WellFormed(fields))

\* the field hints of a whole spec: every path starts with a key of the record
RecordSpec(fh) == \A fp \in DOMAIN fh : fp # <<>> /\ fp[1] \notin Delimiters

\* C8: every path of a record built from a spec is a path of the spec or a
\* prefix of one.
C8_PathsComeFromSpec ==
    (Built_ /\ RecordSpec(fields) /\ ~IsRaise(record.out)) =>
        ValuePaths(record.out, <<>>) \subseteq Prefixes(DOMAIN fields)

\* C9 as stated: a dynamic object that is not null has exactly s distinct keys,
\* s being the size its chain drew, each key a value of the key-pattern chain,
\* and no key takes more than 2*s attempts.
C9_ExactlySizeKeys ==
    (Built_ /\ record.kind = "dynamic" /\ record.out.k = "dict") =>
        /\ Cardinality(Keys(record.out)) = record.self.n
        /\ Keys(record.out) \subseteq ChainResults(KeyHints(OwnHints(fields)))
        /\ record.out.attempts <= 2 * record.self.n

\* C9 amended: the dynamic object has at most s distinct keys, and fewer than s
\* only when 2*s attempts in a row made no new key; each key is a value of the
\* key-pattern chain, or a random lowercase string when the list has no
\* key-pattern hint; no key takes more than 2*s attempts.
C9_AtMostSizeKeys ==
    (Built_ /\ record.kind = "dynamic" /\ record.out.k = "dict") =>
        /\ Cardinality(Keys(record.out)) <= record.self.n
        /\ Cardinality(Keys(record.out)) < record.self.n =>
              record.out.attempts = 2 * record.self.n
        /\ record.self.n > 0 => Keys(record.out) # {}
        /\ Keys(record.out) \subseteq KeyResults(OwnHints(fields))
        /\ record.out.attempts <= 2 * record.self.n

\* a dynamic object that ended with fewer keys than the size drawn
C9_Witness ==
    /\ Built_
    /\ record.kind = "dynamic"
    /\ record.out.k = "dict"
    /\ Cardinality(Keys(record.out)) < record.self.n

(***************************************************************************)
(* Spec construction for one field path.  A sample of array lengths or of  *)
(* key counts is a sequence of counts: sample[v] observations of value v.  *)
(* Quartiles are kept in quarters and the outlier bounds in eighths, the   *)
(* finest steps numpy's linear interpolation and the factor 1.5 produce on *)
(* integers.                                                               *)
(***************************************************************************)
\* the size of a large sample
Many == 20
\* the records analysed
MaxRecords == 3

Size(sample) == sample[1] + sample[2]
Distinct(sample) == {v \in 1..2 : sample[v] > 0}
Smallest(sample) == CHOOSE v \in Distinct(sample) : \A w \in Distinct(sample) : v <= w
Largest(sample) == CHOOSE v \in Distinct(sample) : \A w \in Distinct(sample) : v >= w

\* the value at a 0-based position of the sorted sample
DataAt(sample, pos) == IF pos < sample[1] THEN 1 ELSE 2

\* np.percentile(data, 25 * quarter), in quarters
Percentile(sample, quarter) ==
    LET at == quarter * (Size(sample) - 1)
        lo == DataAt(sample, at \div 4)
        hi == IF at % 4 = 0 THEN lo ELSE DataAt(sample, (at \div 4) + 1)
    IN  4 * lo + (at % 4) * (hi - lo)

\* round() of a number given in eighths: to the nearest integer, a tie to the
\* even one
RoundEighths(x) ==
    LET whole == x \div 8
        rest == x % 8
    IN  IF rest < 4 THEN whole
        ELSE IF rest > 4 THEN whole + 1
        ELSE IF whole % 2 = 0 THEN whole ELSE whole + 1

\* _detect_outliers: the IQR bounds, rounded as the fitters round them, and the
\* data without its extreme outliers
detect_outliers(sample) ==
    LET q1 == Percentile(sample, 1)
        q3 == Percentile(sample, 3)
        iqr == q3 - q1
    IN  [iqr_lower |-> RoundEighths(2 * q1 - 3 * iqr),
         iqr_upper |-> RoundEighths(2 * q3 + 3 * iqr),
         data_without_extreme_outliers |->
            [v \in 1..2 |-> IF 4 * v < q1 - 3 * iqr \/ 4 * v > q3 + 3 * iqr
                            THEN 0 ELSE sample[v]]]

\* the fields of the NumberHint dataclass
NumberHint_fields ==
    {"type", "min", "max", "prec", "norm", "gamma", "beta", "lognorm", "expon", "weibull"}

\* DISTRIBUTION_FITTERS: the least sample each fitter takes, the support it
\* asks for, where its min and max come from, and the keyword arguments it
\* gives NumberHint besides min, max and prec
DISTRIBUTION_FITTERS ==
    <<[name |-> "normal", least |-> 15, support |-> "any", bounds |-> "iqr",
       keywords |-> {"mean", "std"}],
      [name |-> "uniform", least |-> 6, support |-> "any", bounds |-> "fit", keywords |-> {}],
      [name |-> "gamma", least |-> 20, support |-> "positive", bounds |-> "iqr",
       keywords |-> {"alpha", "beta", "loc"}],
      [name |-> "lognorm", least |-> 15, support |-> "positive", bounds |-> "iqr", keywords |-> {}],
      [name |-> "expon", least |-> 10, support |-> "nonnegative", bounds |-> "iqr", keywords |-> {}],
      [name |-> "beta", least |-> 12, support |-> "unit", bounds |-> "iqr", keywords |-> {}],
      [name |-> "weibull", least |-> 18, support |-> "positive", bounds |-> "iqr", keywords |-> {}]>>

\* what stats.<dist>.fit and stats.kstest can report for a fitter: "none" when
\* the fit raises or the p-value is below 0.05, else the KS statistic.  A
\* sample of one repeated value fits with scale 0, where the cdf and so the
\* statistic are not a number; against any proper cdf its statistic is at
\* least 0.5, which fails the test at every sample size a fitter takes.
Verdicts(fit) ==
    IF Cardinality(Distinct(fit)) = 1 THEN {"none", "nan"} ELSE {"none", "low", "high"}

VerdictVectors(fit) == [1..Len(DISTRIBUTION_FITTERS) -> Verdicts(fit)]

NoFit == [hint |-> <<>>, score |-> "none"]

\* one _try_<dist>_distribution; the TypeError NumberHint raises for a keyword
\* argument that is not one of its fields is caught like a failure of the fit
try_distribution(fitter, fit, outliers, verdict) ==
    IF Size(fit) < fitter.least THEN NoFit
    ELSE IF fitter.support = "positive" /\ Smallest(fit) <= 0 THEN NoFit
    ELSE IF fitter.support = "nonnegative" /\ Smallest(fit) < 0 THEN NoFit
    ELSE IF fitter.support = "unit" /\ ~(Smallest(fit) >= 0 /\ Largest(fit) <= 1) THEN NoFit
    ELSE IF verdict = "none" THEN NoFit
    ELSE LET min_val == IF fitter.bounds = "fit" THEN Smallest(fit) ELSE outliers.iqr_lower
             max_val == IF fitter.bounds = "fit" THEN Largest(fit) ELSE outliers.iqr_upper
         IN  IF min_val = max_val
             THEN [hint |-> <<ConstantValueHint(IntV(min_val))>>, score |-> verdict]
             ELSE IF ~(fitter.keywords \subseteq NumberHint_fields) THEN NoFit
             ELSE [hint |-> <<NumberHint(min_val, max_val)>>, score |-> verdict]

\* a comparison that takes a statistic that is not a number for the least
Less_NanFirst(score, best_score) ==
    score = "nan" \/ best_score = "inf" \/ (score = "low" /\ best_score = "high")

\* score < best_score: false whenever the score is not a number
Less(score, best_score) ==
    score # "nan" /\ (best_score = "inf" \/ (score = "low" /\ best_score = "high"))

\* the loop of _get_best_distribution_hint from fitter i on
RECURSIVE BestFrom(_, _, _, _, _, _)
BestFrom(i, best_hint, best_score, fit, outliers, verdicts) ==
    IF i > Len(DISTRIBUTION_FITTERS) THEN best_hint
    ELSE LET try == try_distribution(DISTRIBUTION_FITTERS[i], fit, outliers, verdicts[i])
         IN  IF try.hint # <<>> /\ Less(try.score, best_score)
             THEN BestFrom(i + 1, try.hint, try.score, fit, outliers, verdicts)
             ELSE BestFrom(i + 1, best_hint, best_score, fit, outliers, verdicts)

get_best_distribution_hint(sample, verdicts) ==
    LET outliers == detect_outliers(sample)
    IN  BestFrom(1, <<>>, "inf", outliers.data_without_extreme_outliers, outliers, verdicts)

\* NumericAnalyzer.analyze_all, then get_hint: no hint, or the one hint stored
NumericAnalyzer_analyze_all(sample, verdicts) ==
    IF Size(sample) = 0 THEN <<>>
    ELSE IF Cardinality(Distinct(sample)) = 1
    THEN <<NumberHint(Smallest(sample), Smallest(sample))>>
    ELSE LET hint == get_best_distribution_hint(sample, verdicts)
         IN  IF hint # <<>> THEN hint
             ELSE <<NumberHint(Smallest(sample), Largest(sample))>>

\* every hint the numeric analyzer can store for the sample
NumericHints(sample) ==
    IF Cardinality(Distinct(sample)) < 2
    THEN {NumericAnalyzer_analyze_all(sample, [i \in 1..Len(DISTRIBUTION_FITTERS) |-> "none"])}
    ELSE {NumericAnalyzer_analyze_all(sample, vv)
            : vv \in VerdictVectors(detect_outliers(sample).data_without_extreme_outliers)}

\* round(100 * part / whole, MAX_PRECISION), in thousandths of a percent
RoundPct(part, whole) == (2 * Pct(100) * part + whole) \div (2 * whole)

\* NullAnalyzer.get_hint
NullAnalyzer_get_hint(az) ==
    IF az.nulls > 0 THEN <<NullHint(RoundPct(az.nulls, az.present))>> ELSE <<>>

\* PresenceAnalyzer.get_hint: ends is how the field path ends
PresenceAnalyzer_get_hint(az) ==
    IF az.ends \in {"[]", "{}"} THEN <<>>
    ELSE IF az.present = az.records THEN <<>>
    ELSE <<MissingHint(Pct(100) - RoundPct(az.present, az.records))>>

\* ArrayAnalyzer.get_hints
ArrayAnalyzer_get_hints(az) ==
    IF Size(az.lengths) > 0 /\ az.length_hint # <<>>
    THEN <<ArrayHint>> \o az.length_hint
    ELSE <<>>

\* ObjectAnalyzer.get_hints
ObjectAnalyzer_get_hints(az) ==
    IF Size(az.key_counts) > 0 /\ az.size_hint # <<>>
    THEN <<ObjectHint>> \o az.size_hint \o az.key_pattern
    ELSE <<>>

\* _get_value_hint: the first analyzer that has a hint for the field
get_value_hint(az) ==
    IF az.numeric # <<>> THEN az.numeric
    ELSE IF az.pattern # <<>> THEN az.pattern
    ELSE IF az.alpha # <<>> THEN az.alpha
    ELSE az.choice

\* a _get_hints that asks the presence analyzer before the null analyzer
get_hints_PresenceFirst(az) ==
    (IF ArrayAnalyzer_get_hints(az) # <<>> THEN ArrayAnalyzer_get_hints(az)
     ELSE IF ObjectAnalyzer_get_hints(az) # <<>> THEN ObjectAnalyzer_get_hints(az)
     ELSE get_value_hint(az))
    \o PresenceAnalyzer_get_hint(az) \o NullAnalyzer_get_hint(az)

\* _get_hints
get_hints(az) ==
    (IF ArrayAnalyzer_get_hints(az) # <<>> THEN ArrayAnalyzer_get_hints(az)
     ELSE IF ObjectAnalyzer_get_hints(az) # <<>> THEN ObjectAnalyzer_get_hints(az)
     ELSE get_value_hint(az))
    \o NullAnalyzer_get_hint(az) \o PresenceAnalyzer_get_hint(az)

(***************************************************************************)
(* Specification of spec construction: the analyzers take in the evidence  *)
(* on one field, _get_hints puts the field's hint list together, and the   *)
(* generator runs the list.                                                *)
(***************************************************************************)
Samples == {<<one, two>> : one \in {0, 1, Many}, two \in {0, 1, Many}}
KeySamples == {<<one, two>> : one \in {0, Many}, two \in {0, Many}}

\* ArrayAnalyzer.analyze_field on the lengths seen at the field
AnalyzeLengths ==
    /\ emitted.stage = "lengths"
    /\ \E sample \in Samples : \E hint \in NumericHints(sample) :
          emitted' = [emitted EXCEPT !.stage = "keys", !.lengths = sample, !.length_hint = hint]
    /\ UNCHANGED <<chain, fields, phase, record, factory, direct, extracted>>

\* ObjectAnalyzer.analyze_field on the key counts and the keys seen at the field
AnalyzeKeys ==
    /\ emitted.stage = "keys"
    /\ \E sample \in KeySamples : \E hint \in NumericHints(sample) :
       \E keys \in IF Size(sample) > 0 THEN {<<>>, <<PatternHint("DATE")>>} ELSE {<<>>} :
          emitted' = [emitted EXCEPT !.stage = "values", !.key_counts = sample,
                                     !.size_hint = hint, !.key_pattern = keys]
    /\ UNCHANGED <<chain, fields, phase, record, factory, direct, extracted>>

\* the value analyzers on the values seen at the field: the pattern analyzer
\* runs when the numeric one declined, the alphanumeric one when both did
AnalyzeValues ==
    /\ emitted.stage = "values"
    /\ \E numeric \in {<<>>, <<NumberHint(1, 2)>>} :
       \E pattern \in {<<>>, <<PatternHint("UUID4")>>} :
       \E alpha \in {<<>>, <<PatternHint("ALPHA")>>} :
       \E choice \in {<<>>, <<ConstantValueHint(K1)>>} :
          /\ numeric # <<>> => (pattern = <<>> /\ alpha = <<>>)
          /\ pattern # <<>> => alpha = <<>>
          /\ emitted' = [emitted EXCEPT !.stage = "presence", !.numeric = numeric,
                                        !.pattern = pattern, !.alpha = alpha, !.choice = choice]
    /\ UNCHANGED <<chain, fields, phase, record, factory, direct, extracted>>

\* the counts of the null and the presence analyzer for the field
CountPresence ==
    /\ emitted.stage = "presence"
    /\ \E records \in 1..MaxRecords : \E present \in 1..records : \E nulls \in 0..present :
       \E ends \in {"name", "[]", "{}"} :
          emitted' = [emitted EXCEPT !.stage = "counted", !.records = records,
                                     !.present = present, !.nulls = nulls, !.ends = ends]
    /\ UNCHANGED <<chain, fields, phase, record, factory, direct, extracted>>

\* _get_hints for the field
GetHints ==
    /\ emitted.stage = "counted"
    /\ emitted' = [emitted EXCEPT !.stage = "emitted", !.hints = get_hints(emitted)]
    /\ UNCHANGED <<chain, fields, phase, record, factory, direct, extracted>>

\* the generator runs the emitted list
RunEmitted ==
    /\ emitted.stage = "emitted"
    /\ ~chain.done
    /\ \E d \in ChainDraws(emitted.hints) :
          LET r == generate_value_from_hints(emitted.hints, d)
          IN  chain' = [hints |-> emitted.hints, draws |-> d, res |-> r.res,
                        calls |-> r.calls, done |-> TRUE]
    /\ UNCHANGED <<fields, phase, record, emitted, factory, direct, extracted>>

NextCreate ==
    AnalyzeLengths \/ AnalyzeKeys \/ AnalyzeValues \/ CountPresence \/ GetHints \/ RunEmitted

SpecCreate == Init /\ [][NextCreate]_vars

(***************************************************************************)
(* Reading the emitted list and its run.                                   *)
(***************************************************************************)
Emitted == emitted.stage = "emitted"
IndexesOf(hints, types) == {i \in 1..Len(hints) : hints[i].type \in types}
\* the positions in the call log of the process steps of hints of these types
StepsOf(types) ==
    {x \in 1..Len(chain.calls) :
        chain.calls[x].i <= Len(chain.hints) /\ chain.hints[chain.calls[x].i].type \in types}

\* C7 as stated: in an emitted list with both hints the MISSING hint stands and
\* is evaluated before the NULL hint, both after the value generator.
C7_MissingBeforeNull ==
    Emitted =>
        /\ \A i \in IndexesOf(emitted.hints, {"MISSING"}) :
           \A j \in IndexesOf(emitted.hints, {"NULL"}) : i < j
        /\ \A i \in IndexesOf(emitted.hints, {"NULL", "MISSING"}) :
           \A g \in IndexesOf(emitted.hints, GeneratorTypes) : g < i
        /\ chain.done =>
              /\ \A x \in StepsOf({"MISSING"}) : \A y \in StepsOf({"NULL"}) : x < y
              /\ \A x \in StepsOf({"NULL", "MISSING"}) : \A g \in StepsOf(GeneratorTypes) : g < x

\* C7 amended: in an emitted list with both hints the NULL hint stands and is
\* evaluated before the MISSING hint, both after the value generator.
C7_NullBeforeMissing ==
    Emitted =>
        /\ \A i \in IndexesOf(emitted.hints, {"MISSING"}) :
           \A j \in IndexesOf(emitted.hints, {"NULL"}) : j < i
        /\ \A i \in IndexesOf(emitted.hints, {"NULL", "MISSING"}) :
           \A g \in IndexesOf(emitted.hints, GeneratorTypes) : g < i
        /\ chain.done =>
              /\ \A x \in StepsOf({"MISSING"}) : \A y \in StepsOf({"NULL"}) : y < x
              /\ \A x \in StepsOf({"NULL", "MISSING"}) : \A g \in StepsOf(GeneratorTypes) : g < x

\* a run of an emitted list in which a generator, the NULL hint and the MISSING
\* hint all had their process step
C7_Witness ==
    /\ Emitted
    /\ chain.done
    /\ StepsOf({"NULL"}) # {}
    /\ StepsOf({"MISSING"}) # {}
    /\ StepsOf(GeneratorTypes) # {}

\* C10: an emitted list has at most one of ARRAY and OBJECT, and with either of
\* them exactly one NUMBER hint, whatever the lengths or key counts observed.
C10_ContainerHasOneNumber ==
    Emitted =>
        /\ ~({"ARRAY", "OBJECT"} \subseteq TypesOf(emitted.hints))
        /\ TypesOf(emitted.hints) \cap {"ARRAY", "OBJECT"} # {} =>
              Cardinality(IndexesOf(emitted.hints, {"NUMBER"})) = 1

\* an ARRAY list from lengths that differ while both rounded IQR bounds are the
\* same number
C10_Witness ==
    /\ Emitted
    /\ "ARRAY" \in TypesOf(emitted.hints)
    /\ Cardinality(Distinct(emitted.lengths)) = 2
    /\ detect_outliers(emitted.lengths).iqr_lower = detect_outliers(emitted.lengths).iqr_upper

(***************************************************************************)
(* Specification of loading: load_factory_spec turns a spec document into  *)
(* the field hints of a FactorySpec, then build() runs once.  An entry of  *)
(* a document is a tag with its parameters; it has the shape of the hint   *)
(* the tag's class makes of it.                                            *)
(***************************************************************************)
\* HINT_TYPE_MAP: the tags of the registry
HINT_TYPE_MAP ==
    {"ALPHA", "ARRAY", "AUTH0_ID", "CHOICE", "CONST", "DATE", "DATETIME", "DURATION",
     "MAC", "MISSING", "NULL", "NUMBER", "NUMSTR", "OBJECT", "TEXT", "UUID4", "VERSION"}

\* create_hint_from_spec_format: the hint, or the KeyError HINT_TYPE_MAP[hint_type]
\* raises for a tag that is not a key of the map
create_hint_from_spec_format(entry) ==
    IF entry.type \in HINT_TYPE_MAP
    THEN [raises |-> "none", hint |-> entry]
    ELSE [raises |-> "KeyError", hint |-> entry]

\* create_hints_from_spec_format over the entries of one field
create_hints_from_spec_format(entries) ==
    IF \E i \in 1..Len(entries) : create_hint_from_spec_format(entries[i]).raises # "none"
    THEN [raises |-> "KeyError", hints |-> <<>>]
    ELSE [raises |-> "none",
          hints |-> [i \in 1..Len(entries) |-> create_hint_from_spec_format(entries[i]).hint]]

\* the documents loaded: a field a, alone or with element paths below it
DocumentPaths == {<<"a", "[]">>, <<"a", ".", "{}">>, <<"a", "[]", ".", "b">>}

DocumentLists ==
    {<<ArrayHint, NumberHint(0, 1)>>,
     <<ArrayHint, NumberHint(0, 0)>>,
     <<ArrayHint>>,
     <<ArrayHint, HalfNull>>,
     <<ObjectHint, NumberHint(1, 2)>>,
     <<ObjectHint>>,
     <<ConstantValueHint(K1)>>,
     <<ConstantValueHint(K1), PatternHint("REGEX")>>}

Documents ==
    UNION {[{<<"a">>} \cup paths -> DocumentLists] : paths \in SUBSET DocumentPaths}

\* load_factory_spec(spec): the field hints go to the FactorySpec, or the
\* exception of the conversion comes out
load_factory_spec ==
    /\ phase = "spec"
    /\ fields = <<>>
    /\ \E doc \in Documents :
          IF \E fp \in DOMAIN doc : create_hints_from_spec_format(doc[fp]).raises # "none"
          THEN /\ fields' = doc
               /\ phase' = "built"
               /\ record' = Built("none", NotRun, NoKids, Raise("KeyError"))
          ELSE /\ fields' = [fp \in DOMAIN doc |-> create_hints_from_spec_format(doc[fp]).hints]
               /\ UNCHANGED <<phase, record>>
    /\ UNCHANGED <<chain, emitted, factory, direct, extracted>>

NextLoad == load_factory_spec \/ Build

SpecLoad == Init /\ [][NextLoad]_vars

\* a hint tag of the field hints that is not in the registry
UnknownTag(fh) == \E fp \in DOMAIN fh : TypesOf(fh[fp]) \ HINT_TYPE_MAP # {}
\* the node at the path is an ARRAY or OBJECT node ...
IsContainer(fh, fp) == TypesOf(fh[fp]) \cap {"ARRAY", "OBJECT"} # {}
\* ... without a size hint
NoSizeHint(fh, fp) == IsContainer(fh, fp) /\ "NUMBER" \notin TypesOf(fh[fp])
\* ... without a path for its elements, and a size that is not fixed to zero
NoElements(fh, fp) ==
    /\ IsContainer(fh, fp)
    /\ get_fixed_length(fh[fp]) # 0
    /\ \A other \in DOMAIN fh : ~(Len(other) > Len(fp) /\ SubSeq(other, 1, Len(fp)) = fp)

\* C11: a spec whose field a is an ARRAY or OBJECT node without element
\* children (and a size not fixed to zero) or without a size hint, or a spec
\* with a hint tag outside the registry, ends in a spec validation error: no
\* other exception comes out and no value is returned.
C11_DefectIsValidationError ==
    (Built_ /\ (UnknownTag(fields) \/ NoSizeHint(fields, <<"a">>) \/ NoElements(fields, <<"a">>)))
        => record.out = Raise("SpecValidationError")

(***************************************************************************)
(* Factory: overrides on a generated record (factory.py).  A path of an    *)
(* override is the list of parts _parse_field_path makes of it: keys, and  *)
(* integers for array indexes.  A dict of overrides is the sequence of its *)
(* items, in insertion order.  In-place assignment to the record is        *)
(* modelled by the record it leaves; an exception by Raise.                *)
(***************************************************************************)
StrPart(s) == [t |-> "str", s |-> s, n |-> 0]
IntPart(n) == [t |-> "int", s |-> "", n |-> n]

IsDict(v) == v.k = "dict"
IsList(v) == v.k = "list"
\* key in data, data.get(key) and data[key] = value for a dict
DictHas(d, key) == StrV(key) \in DOMAIN d.m
DictGet(d, key) == IF DictHas(d, key) THEN d.m[StrV(key)] ELSE None

\* an assignment that clears a key which holds the value already
DictPut_Toggle(d, key, value) ==
    [d EXCEPT !.m = [x \in DOMAIN d.m \cup {StrV(key)} |->
                        IF x # StrV(key) THEN d.m[x]
                        ELSE IF DictGet(d, key) = value THEN None ELSE value]]

\* data[key] = value
DictPut(d, key, value) ==
    [d EXCEPT !.m = [x \in DOMAIN d.m \cup {StrV(key)} |->
                        IF x = StrV(key) THEN value ELSE d.m[x]]]

\* the segments of an override key between its "__" (or its dots)
IsDigit(seg) == seg \in {"0", "1", "2", "3"}
IntOf(seg) ==
    CASE seg = "0" -> 0
      [] seg = "1" -> 1
      [] seg = "2" -> 2
      [] OTHER -> 3

\* _process_overrides on one key, then _parse_field_path on the field path it
\* makes: key.replace("__", "."), a digit segment becomes the index [n] of
\* the segment before it, and the parser reads it back as an integer
parse_field_path(segs) ==
    [i \in 1..Len(segs) |-> IF IsDigit(segs[i]) THEN IntPart(IntOf(segs[i])) ELSE StrPart(segs[i])]

\* in a dict of overrides: the position of a path (0 when it is not a key)
IndexOfPath(items, path) ==
    IF \E i \in 1..Len(items) : items[i].path = path
    THEN CHOOSE i \in 1..Len(items) : items[i].path = path
    ELSE 0

\* an assignment that leaves the value of a known key as it is
PutItem_KeepFirst(items, path, value) ==
    IF IndexOfPath(items, path) # 0
    THEN items
    ELSE Append(items, [path |-> path, value |-> value])

\* d[path] = value on the items of a dict: the value of a known key changes in
\* place, a new key goes to the end
PutItem(items, path, value) ==
    IF IndexOfPath(items, path) # 0
    THEN [items EXCEPT ![IndexOfPath(items, path)].value = value]
    ELSE Append(items, [path |-> path, value |-> value])

\* d1 | d2
RECURSIVE Merge(_, _)
Merge(d1, d2) ==
    IF d2 = <<>> THEN d1
    ELSE Merge(PutItem(d1, Head(d2).path, Head(d2).value), Tail(d2))

\* _process_overrides(override, **overrides): the items of the positional dict,
\* then the keyword arguments, keyed by processed field path
process_overrides(override, overrides) ==
    Merge(Merge(<<>>, [i \in 1..Len(override) |->
                        [path |-> parse_field_path(override[i].key), value |-> override[i].value]]),
          [i \in 1..Len(overrides) |->
              [path |-> parse_field_path(overrides[i].key), value |-> overrides[i].value]])

\* data.extend([None for _ in range(final_part + 1 - len(data))]); data[final_part] = value
ListPut(xs, n, value) ==
    [i \in 1..(IF Len(xs) > n + 1 THEN Len(xs) ELSE n + 1) |->
        IF i = n + 1 THEN value ELSE IF i <= Len(xs) THEN xs[i] ELSE None]

\* a loop over the items of a list that stops after the first item
DictItems_FirstOnly(xs) == {i \in 1..Len(xs) : i = 1 /\ IsDict(xs[i])}

\* for item in data: if isinstance(item, dict): the positions of those items
DictItems(xs) == {i \in 1..Len(xs) : IsDict(xs[i])}

\* a test for null data that never answers yes
IsNone_Never(data) == data # data

\* data is None
IsNone(data) == data = None

\* _set_nested_value_from_parts(data, parts, value): the data it leaves
RECURSIVE set_nested_value_from_parts(_, _, _)
set_nested_value_from_parts(data, parts, value) ==
    IF parts = <<>> THEN data
    ELSE IF Len(parts) = 1 THEN
        IF parts[1].t = "int"
        THEN IF IsList(data) THEN List(ListPut(data.xs, parts[1].n, value)) ELSE data
        ELSE IF IsList(data)
        THEN List([i \in 1..Len(data.xs) |->
                    IF i \in DictItems(data.xs) THEN DictPut(data.xs[i], parts[1].s, value)
                    ELSE data.xs[i]])
        ELSE IF IsNone(data) THEN data
        ELSE IF IsDict(data) THEN DictPut(data, parts[1].s, value)
        ELSE Raise("TypeError")
    ELSE IF parts[1].t = "int" THEN
        IF ~IsList(data) \/ Len(data.xs) <= parts[1].n THEN data
        ELSE LET sub == set_nested_value_from_parts(data.xs[parts[1].n + 1], Tail(parts), value)
             IN  IF IsRaise(sub) THEN sub
                 ELSE List([data.xs EXCEPT ![parts[1].n + 1] = sub])
    ELSE IF IsList(data) THEN
        LET subs == [i \in 1..Len(data.xs) |->
                        IF i \in DictItems(data.xs)
                        THEN set_nested_value_from_parts(data.xs[i], parts, value)
                        ELSE data.xs[i]]
        IN  IF \E i \in 1..Len(subs) : IsRaise(subs[i])
            THEN subs[CHOOSE i \in 1..Len(subs) :
                        IsRaise(subs[i]) /\ \A j \in 1..(i - 1) : ~IsRaise(subs[j])]
            ELSE List(subs)
    ELSE IF IsNone(data) THEN data
    ELSE IF ~IsDict(data) THEN Raise("TypeError")
    ELSE LET made == IF DictHas(data, parts[1].s) THEN data
                     ELSE DictPut(data, parts[1].s,
                                  IF parts[2].t = "int" THEN List(<<>>) ELSE StaticDict(NoKids))
             sub == set_nested_value_from_parts(DictGet(made, parts[1].s), Tail(parts), value)
         IN  IF IsRaise(sub) THEN sub ELSE DictPut(made, parts[1].s, sub)

\* _set_nested_value: a path without a dot or an index is a key of the record
set_nested_value(data, parts, value) ==
    IF Len(parts) = 1 /\ parts[1].t = "str"
    THEN DictPut(data, parts[1].s, value)
    ELSE set_nested_value_from_parts(data, parts, value)

\* _get_nested_value_from_parts
RECURSIVE get_nested_value_from_parts(_, _)
get_nested_value_from_parts(data, parts) ==
    IF parts = <<>> THEN data
    ELSE LET part == parts[1]
             found == (part.t = "int" /\ IsList(data) /\ part.n < Len(data.xs))
                      \/ (part.t = "str" /\ IsDict(data) /\ DictHas(data, part.s))
             next_data == IF ~found THEN None
                          ELSE IF part.t = "int" THEN data.xs[part.n + 1]
                          ELSE DictGet(data, part.s)
         IN  IF Len(parts) = 1 THEN next_data
             ELSE IF next_data # None
             THEN get_nested_value_from_parts(next_data, Tail(parts))
             ELSE None

\* _get_nested_value
get_nested_value(data, parts) ==
    IF Len(parts) = 1 /\ parts[1].t = "str"
    THEN DictGet(data, parts[1].s)
    ELSE get_nested_value_from_parts(data, parts)

(***************************************************************************)
(* Callable overrides.  A callable is known by its signature: the number   *)
(* of its positional parameters and the names of its keyword-only ones;    *)
(* fn is what it computes from the value it is given.                      *)
(***************************************************************************)
Callable(positional, kwonly, fn) ==
    [k |-> "callable", positional |-> positional, kwonly |-> kwonly, fn |-> fn]

\* callable(value)
callable(value) == value.k = "callable"

\* _build_keyword_args: TypeError for a keyword-only parameter that is neither
\* value nor obj
build_keyword_args(keyword_only_params, field_value, entire_object) ==
    IF keyword_only_params \ {"value", "obj"} # {}
    THEN [raises |-> "TypeError", kwargs |-> [name \in {} |-> None]]
    ELSE [raises |-> "none",
          kwargs |-> [name \in keyword_only_params |->
                        IF name = "value" THEN field_value ELSE entire_object]]

\* what the body of the callable returns: a constant, or the successor of the
\* current value when it was given one
Invoke(cb, args, kwargs) ==
    LET seen == IF Len(args) >= 1 THEN args[1]
                ELSE IF "value" \in DOMAIN kwargs THEN kwargs["value"]
                ELSE None
    IN  IF cb.fn = "succ"
        THEN IF IsInt(seen) THEN IntV(seen.n + 1) ELSE IntV(0)
        ELSE StrV("made")

NotCalled == [raises |-> "TypeError", args |-> <<>>, kwargs |-> [name \in {} |-> None], ret |-> None]

\* a _call_with_positional_args that passes the first positional_count of
\* (value, record) for any count, without the limit of two
call_with_positional_args_NoLimit(cb, positional_count, field_value, entire_object, kwargs) ==
    LET args == SubSeq(<<field_value, entire_object, None, None>>, 1, positional_count)
    IN  [raises |-> "none", args |-> args, kwargs |-> kwargs, ret |-> Invoke(cb, args, kwargs)]

\* _call_with_positional_args
call_with_positional_args(cb, positional_count, field_value, entire_object, kwargs) ==
    IF positional_count > 2 THEN NotCalled
    ELSE LET args == SubSeq(<<field_value, entire_object>>, 1, positional_count)
         IN  [raises |-> "none", args |-> args, kwargs |-> kwargs,
              ret |-> Invoke(cb, args, kwargs)]

\* _resolve_callable_override: the call made and what it returned, or TypeError
resolve_callable_override(cb, field_value, entire_object) ==
    LET kw == build_keyword_args(cb.kwonly, field_value, entire_object)
    IN  IF kw.raises # "none" THEN NotCalled
        ELSE call_with_positional_args(cb, cb.positional, field_value, entire_object, kw.kwargs)

(***************************************************************************)
(* _apply_overrides.  The log has one event per thing done, in order:      *)
(*   "call"  a callable override was resolved (call is the call made)      *)
(*   "set"   a value was set at a path                                     *)
(***************************************************************************)
Event(ev, path, value, call) == [ev |-> ev, path |-> path, value |-> value, call |-> call]

\* the loop of _apply_overrides from item i on
RECURSIVE ApplyFrom(_, _, _, _)
ApplyFrom(result, items, i, log) ==
    IF i > Len(items) THEN [out |-> result, log |-> log]
    ELSE LET path == items[i].path
             value == items[i].value
         IN  IF callable(value)
             THEN LET current_field_value == get_nested_value(result, path)
                      call == resolve_callable_override(value, current_field_value, result)
                      called == Append(log, Event("call", path, current_field_value, call))
                      next == set_nested_value(result, path, call.ret)
                  IN  IF call.raises # "none" THEN [out |-> Raise(call.raises), log |-> called]
                      ELSE IF IsRaise(next) THEN [out |-> next, log |-> called]
                      ELSE ApplyFrom(next, items, i + 1,
                                     Append(called, Event("set", path, call.ret, NotCalled)))
             ELSE LET next == set_nested_value(result, path, value)
                  IN  IF IsRaise(next) THEN [out |-> next, log |-> log]
                      ELSE ApplyFrom(next, items, i + 1,
                                     Append(log, Event("set", path, value, NotCalled)))

\* _apply_overrides(data, overrides); dict(data) takes a dict
apply_overrides(data, overrides) ==
    IF overrides = <<>> THEN [out |-> data, log |-> <<>>]
    ELSE IF ~IsDict(data) THEN [out |-> Raise("TypeError"), log |-> <<>>]
    ELSE ApplyFrom(data, overrides, 1, <<>>)

\* a build that applies the overrides while the record still lacks its field n
Factory_build_Partial(held, override, overrides, built) ==
    IF IsRaise(built) THEN [out |-> built, log |-> <<>>]
    ELSE LET combined_overrides == Merge(held, process_overrides(override, overrides))
             partial == [built EXCEPT !.m = [key \in DOMAIN built.m \ {StrV("n")} |-> built.m[key]]]
             applied == apply_overrides(IF IsDict(built) THEN partial ELSE built, combined_overrides)
         IN  [out |-> applied.out,
              log |-> <<Event("generate", <<>>, built, NotCalled)>> \o applied.log]

\* Factory.build(override, **overrides) of a factory holding the overrides
\* held, on what its FactorySpec built
Factory_build(held, override, overrides, built) ==
    IF IsRaise(built) THEN [out |-> built, log |-> <<>>]
    ELSE LET combined_overrides == Merge(held, process_overrides(override, overrides))
             applied == apply_overrides(built, combined_overrides)
         IN  [out |-> applied.out,
              log |-> <<Event("generate", <<>>, built, NotCalled)>> \o applied.log]

\* Factory.copy(override, **overrides): the overrides of the new factory
Factory_copy(held, override, overrides) == Merge(held, process_overrides(override, overrides))

(***************************************************************************)
(* Specification of the overrides: _apply_overrides runs on a record the   *)
(* FactorySpec below built, under a dict of overrides, and then once more  *)
(* on the record it returned.                                              *)
(***************************************************************************)
\* most items of a dict of overrides
MaxOverrides == 2

\* x: a number; n: an object or null; items: an array of one or two elements,
\* each null or an object with v and with the array sub of one such element
OverrideFields ==
    [fp \in {<<"x">>, <<"n">>, <<"n", ".", "v">>, <<"items">>, <<"items", "[]">>,
             <<"items", "[]", ".", "v">>, <<"items", "[]", ".", "sub">>,
             <<"items", "[]", ".", "sub", "[]">>, <<"items", "[]", ".", "sub", "[]", ".", "v">>} |->
        CASE fp = <<"x">> -> <<ConstantValueHint(IntV(1))>>
          [] fp = <<"items">> -> <<ArrayHint, NumberHint(1, 2)>>
          [] fp = <<"items", "[]", ".", "sub">> -> <<ArrayHint, NumberHint(1, 1)>>
          [] fp \in {<<"n">>, <<"items", "[]">>, <<"items", "[]", ".", "sub", "[]">>} -> <<HalfNull>>
          [] OTHER -> <<ConstantValueHint(K1)>>]

\* the records FactorySpec(fh).build() can return
GeneratedRecords(fh) == Returned({b.out : b \in FactorySpec_build(fh, RecursionLimit)})

OverrideKeys ==
    {<<"x">>, <<"n">>, <<"n", "v">>, <<"items", "v">>, <<"items", "sub", "v">>,
     <<"items", "0", "v">>}

OverrideValues == {StrV("z"), Callable(1, {}, "succ")}

\* the dicts of overrides: at most MaxOverrides items, no key twice
RECURSIVE OverrideDicts(_)
OverrideDicts(n) ==
    IF n = 0 THEN {<<>>}
    ELSE LET shorter == OverrideDicts(n - 1)
         IN  shorter \cup
             {Append(d, [key |-> key, value |-> value]) :
                d \in {x \in shorter : Len(x) = n - 1},
                key \in OverrideKeys, value \in OverrideValues}

NoKeyTwice(d) == \A i, j \in 1..Len(d) : i # j => d[i].key # d[j].key

\* _apply_overrides(data, overrides)
ApplyOverrides ==
    /\ factory.stage = "none"
    /\ \E data \in GeneratedRecords(OverrideFields) :
       \E d \in {x \in OverrideDicts(MaxOverrides) : NoKeyTwice(x)} :
          LET overrides == process_overrides(d, <<>>)
              applied == apply_overrides(data, overrides)
          IN  factory' = [factory EXCEPT !.stage = "applied", !.held = overrides,
                                         !.data = data, !.out = applied.out,
                                         !.log = applied.log]
    /\ UNCHANGED <<chain, fields, phase, record, emitted, direct, extracted>>

\* _apply_overrides(result, overrides) on the record the first call returned
ApplyAgain ==
    /\ factory.stage = "applied"
    /\ ~IsRaise(factory.out)
    /\ factory' = [factory EXCEPT !.stage = "again",
                                  !.again = apply_overrides(factory.out, factory.held).out]
    /\ UNCHANGED <<chain, fields, phase, record, emitted, direct, extracted>>

NextOverride == ApplyOverrides \/ ApplyAgain

SpecOverride == Init /\ [][NextOverride]_vars

(***************************************************************************)
(* Reading a record position by position.  A position is the list of keys  *)
(* and indexes that leads to it; what stands there is a scalar or null, or *)
(* the mark of a dict, or the mark of a list with its length.              *)
(***************************************************************************)
DictMark == [k |-> "dictmark"]
ListMark(n) == [k |-> "listmark", n |-> n]

RECURSIVE Flat(_, _)
Flat(v, at) ==
    IF IsDict(v)
    THEN {<<at, DictMark>>}
         \cup UNION {Flat(v.m[key], Append(at, StrPart(key.s))) : key \in DOMAIN v.m}
    ELSE IF IsList(v)
    THEN {<<at, ListMark(Len(v.xs))>>}
         \cup UNION {Flat(v.xs[i], Append(at, IntPart(i - 1))) : i \in 1..Len(v.xs)}
    ELSE {<<at, v>>}

\* the value at a position
RECURSIVE At(_, _)
At(v, pos) ==
    IF pos = <<>> THEN v
    ELSE IF pos[1].t = "int" THEN At(v.xs[pos[1].n + 1], Tail(pos))
    ELSE At(v.m[StrV(pos[1].s)], Tail(pos))

Positions(v) == {e[1] : e \in Flat(v, <<>>)}

\* the position lies on the path: it has the keys and indexes of the path in
\* order, and an index of its own wherever the path crosses an array without
\* naming an index
RECURSIVE OnPath(_, _)
OnPath(pos, path) ==
    IF pos = <<>> \/ path = <<>> THEN pos = path
    ELSE IF pos[1] = path[1] THEN OnPath(Tail(pos), Tail(path))
    ELSE pos[1].t = "int" /\ path[1].t = "str" /\ OnPath(Tail(pos), path)

\* the position is on the path or below a position on it
Under(pos, path) == \E n \in 0..Len(pos) : OnPath(SubSeq(pos, 1, n), path)

\* the path names a key directly after a segment whose value is an array
Broadcasts(data, path) ==
    \E pos \in Positions(data) : \E n \in 1..(Len(path) - 1) :
        /\ IsList(At(data, pos))
        /\ OnPath(pos, SubSeq(path, 1, n))
        /\ path[n].t = "str" /\ path[n + 1].t = "str"

\* the positions of the objects the last key of the path is set in
Holders(data, path) ==
    {pos \in Positions(data) :
        /\ IsDict(At(data, pos))
        /\ OnPath(Append(pos, path[Len(path)]), path)}

Applied == factory.stage \in {"applied", "again"}
\* the dict of overrides has one item, a plain value
OneValue == Len(factory.held) = 1 /\ ~callable(factory.held[1].value)

\* C12: an override whose path names a key after an array is set in every
\* object element of the array, at every level of arrays the path crosses;
\* the arrays keep their lengths and every position off the path is as
\* generated.
C12_BroadcastToEveryElement ==
    (Applied /\ OneValue /\ Broadcasts(factory.data, factory.held[1].path)) =>
        LET path == factory.held[1].path
            last == path[Len(path)]
        IN  /\ ~IsRaise(factory.out)
            /\ \A pos \in Holders(factory.data, path) :
                  <<Append(pos, last), factory.held[1].value>> \in Flat(factory.out, <<>>)
            /\ \A e \in Flat(factory.data, <<>>) :
                  ~Under(e[1], path) => e \in Flat(factory.out, <<>>)
            /\ \A e \in Flat(factory.out, <<>>) :
                  ~Under(e[1], path) => e \in Flat(factory.data, <<>>)

\* a path across two levels of arrays, set in the elements of an inner array
\* for two elements of the outer one
C12_Witness ==
    /\ Applied /\ OneValue
    /\ factory.held[1].path = parse_field_path(<<"items", "sub", "v">>)
    /\ Cardinality(Holders(factory.data, factory.held[1].path)) = 2

\* the null positions the path passes through: the next key or index of the
\* path would be looked up in them
NullsOnPath(data, path) ==
    {pos \in Positions(data) :
        /\ At(data, pos) = None
        /\ \E n \in 1..Len(path) : OnPath(Append(pos, path[n]), SubSeq(path, 1, n))}

OneItem == Len(factory.held) = 1

\* C13: when the path of an override passes through a null (a null field or a
\* null element of an array it is broadcast over), nothing is raised, the null
\* stays null, and the value is still set in every object the path reaches.
C13_NullBranchSkipped ==
    (Applied /\ OneItem /\ NullsOnPath(factory.data, factory.held[1].path) # {}) =>
        LET path == factory.held[1].path
        IN  /\ ~IsRaise(factory.out)
            /\ \A pos \in NullsOnPath(factory.data, path) :
                  <<pos, None>> \in Flat(factory.out, <<>>)
            /\ ~callable(factory.held[1].value) =>
                  \A pos \in Holders(factory.data, path) :
                      <<Append(pos, path[Len(path)]), factory.held[1].value>>
                          \in Flat(factory.out, <<>>)

\* an override broadcast over an array with a null element and an object element
C13_Witness ==
    /\ Applied /\ OneValue
    /\ factory.held[1].path = parse_field_path(<<"items", "v">>)
    /\ NullsOnPath(factory.data, factory.held[1].path) # {}
    /\ Holders(factory.data, factory.held[1].path) # {}

(***************************************************************************)
(* Specification of the Factory: a factory is constructed with overrides,  *)
(* copied with more, and one of the two builds a record, with more still.  *)
(* The value of an override names the argument that defined it, so that a  *)
(* record tells which definition of a path was applied.                    *)
(***************************************************************************)
\* most positional parameters of a callable override
MaxPositional == 3

\* x: a number; n: an object with the key v, or null
FactoryFields ==
    [fp \in {<<"x">>, <<"n">>, <<"n", ".", "v">>} |->
        CASE fp = <<"x">> -> <<ConstantValueHint(IntV(1))>>
          [] fp = <<"n">> -> <<HalfNull>>
          [] OTHER -> <<ConstantValueHint(K1)>>]

FactoryKeys == <<(<<"x">>), (<<"n", "v">>)>>

\* the override arguments one source can give: any of the keys, each with the
\* value that names the source
SourceItems(source) ==
    {SelectSeq([i \in 1..Len(FactoryKeys) |-> [key |-> FactoryKeys[i], value |-> StrV(source)]],
               LAMBDA item : item.key \in keys)
        : keys \in SUBSET {FactoryKeys[i] : i \in 1..Len(FactoryKeys)}}

\* the signatures a callable override can have
Callables ==
    {Callable(positional, kwonly, "succ") :
        positional \in 0..MaxPositional, kwonly \in SUBSET {"value", "obj", "other"}}

\* the keyword arguments of build: as those of any source, or with a callable for x
BuildKwargs ==
    SourceItems("build_kwargs")
    \cup {<<[key |-> <<"x">>, value |-> cb]>> \o rest :
            cb \in Callables,
            rest \in {<<>>, <<[key |-> <<"n", "v">>, value |-> StrV("build_kwargs")]>>}}

\* Factory(spec, **overrides)
Factory_init ==
    /\ factory.stage = "none"
    /\ \E overrides \in SourceItems("init") :
          factory' = [factory EXCEPT !.stage = "made",
                                     !.made = process_overrides(<<>>, overrides),
                                     !.held = process_overrides(<<>>, overrides)]
    /\ UNCHANGED <<chain, fields, phase, record, emitted, direct, extracted>>

\* new_factory = factory.copy(override, **overrides)
Factory_copy_ ==
    /\ factory.stage = "made"
    /\ \E override \in SourceItems("copy_override") : \E overrides \in SourceItems("copy_kwargs") :
          factory' = [factory EXCEPT !.stage = "copied",
                                     !.copy_override = override,
                                     !.copy_kwargs = overrides,
                                     !.copied = Factory_copy(factory.held, override, overrides)]
    /\ UNCHANGED <<chain, fields, phase, record, emitted, direct, extracted>>

\* factory.build(override, **overrides), or new_factory.build(override, **overrides)
Factory_build_ ==
    /\ factory.stage \in {"made", "copied"}
    /\ \E on \in IF factory.stage = "copied" THEN {"original", "copy"} ELSE {"original"} :
       \E override \in SourceItems("build_override") : \E overrides \in BuildKwargs :
       \E b \in FactorySpec_build(FactoryFields, RecursionLimit) :
          LET built == Factory_build(IF on = "copy" THEN factory.copied ELSE factory.held,
                                     override, overrides, b.out)
          IN  factory' = [factory EXCEPT !.stage = "built", !.on = on,
                                         !.override = override, !.kwargs = overrides,
                                         !.data = b.out, !.out = built.out, !.log = built.log]
    /\ UNCHANGED <<chain, fields, phase, record, emitted, direct, extracted>>

NextFactory == Factory_init \/ Factory_copy_ \/ Factory_build_

SpecFactory == Init /\ [][NextFactory]_vars

(***************************************************************************)
(* Reading the last build.                                                 *)
(***************************************************************************)
FactoryBuilt == factory.stage = "built"
Events == {factory.log[i] : i \in 1..Len(factory.log)}
CallEvents == {i \in 1..Len(factory.log) : factory.log[i].ev = "call"}
\* the override given for a path in an argument, as a set: empty or one value
Given(arg, path) == {arg[i].value : i \in {j \in 1..Len(arg) : parse_field_path(arg[j].key) = path}}
\* the callable build was given for the path
CallableAt(path) == CHOOSE cb \in Given(factory.kwargs, path) : TRUE
\* the value of the generated record at a path (None when there is none)
Generated(path) ==
    IF path \in Positions(factory.data) THEN At(factory.data, path) ELSE None
\* the record is the generated record but for what stands at the paths of overrides
IsRecordOfBuild(obj) ==
    /\ IsDict(obj)
    /\ \A e \in Flat(factory.data, <<>>) \cup Flat(obj, <<>>) :
          (\A i \in 1..Len(FactoryKeys) : ~Under(e[1], parse_field_path(FactoryKeys[i])))
              => (e \in Flat(factory.data, <<>>) /\ e \in Flat(obj, <<>>))

\* C14: a callable override with k <= 2 positional parameters and keyword-only
\* parameters among value and obj is called with the first k of (current value
\* at the path, record), value and obj by name as declared; with more than two
\* positional parameters, or another keyword-only name, build raises TypeError
\* and returns no record.
C14_CallableSignature ==
    FactoryBuilt =>
        \A i \in CallEvents :
            LET e == factory.log[i]
                cb == CallableAt(e.path)
                given == <<Generated(e.path)>>
            IN  IF cb.positional <= 2 /\ cb.kwonly \subseteq {"value", "obj"}
                THEN /\ e.call.raises = "none"
                     /\ Len(e.call.args) = cb.positional
                     /\ cb.positional >= 1 => e.call.args[1] = given[1]
                     /\ cb.positional = 2 => IsRecordOfBuild(e.call.args[2])
                     /\ DOMAIN e.call.kwargs = cb.kwonly
                     /\ "value" \in cb.kwonly => e.call.kwargs["value"] = given[1]
                     /\ "obj" \in cb.kwonly => IsRecordOfBuild(e.call.kwargs["obj"])
                     /\ ~IsRaise(factory.out)
                ELSE factory.out = Raise("TypeError")

\* a build that called a callable of two positional parameters and the two
\* keyword-only ones
C14_Witness ==
    /\ FactoryBuilt
    /\ \E i \in CallEvents :
          /\ CallableAt(factory.log[i].path).positional = 2
          /\ CallableAt(factory.log[i].path).kwonly = {"value", "obj"}
          /\ factory.log[i].call.args = <<IntV(1), factory.log[i].call.kwargs["obj"]>>

\* the value a dict of overrides holds for a path, as a set: empty or one value
HeldValue(items, path) == {items[i].value : i \in {j \in 1..Len(items) : items[j].path = path}}
\* the last of the definitions of a path, given in the order they were made
LastDefined(definitions) ==
    LET made == {i \in 1..Len(definitions) : definitions[i] # {}}
    IN  IF made = {} THEN {}
        ELSE definitions[CHOOSE i \in made : \A j \in made : j <= i]
FactoryPaths == {parse_field_path(FactoryKeys[i]) : i \in 1..Len(FactoryKeys)}
\* the values set at a path by the last build, and the number of times
SetEvents(path) ==
    {i \in 1..Len(factory.log) : factory.log[i].ev = "set" /\ factory.log[i].path = path}
SetValues(path) == {factory.log[i].value : i \in SetEvents(path)}
\* the overrides of the factory that built
BuiltOn == IF factory.on = "copy" THEN factory.copied ELSE factory.held

\* C15: for each path build applies one override, the last defined in the
\* order: overrides of the factory, positional dict of build, keyword arguments
\* of build.  The copy of a factory holds for each path the last defined in
\* the order: overrides of the original, positional dict of copy, keyword
\* arguments of copy; the original keeps the overrides it was made with.
C15_LastDefinitionWins ==
    /\ factory.stage \in {"copied", "built"} => factory.held = factory.made
    /\ factory.stage = "copied" =>
          \A path \in FactoryPaths :
              HeldValue(factory.copied, path) =
                  LastDefined(<<HeldValue(factory.made, path),
                                Given(factory.copy_override, path),
                                Given(factory.copy_kwargs, path)>>)
    /\ (FactoryBuilt /\ ~IsRaise(factory.out)) =>
          \A path \in FactoryPaths :
              LET defined == LastDefined(<<HeldValue(BuiltOn, path),
                                           Given(factory.override, path),
                                           Given(factory.kwargs, path)>>)
              IN  /\ Cardinality(SetEvents(path)) = Cardinality(defined)
                  /\ \A value \in defined :
                        IF callable(value)
                        THEN \E i \in CallEvents :
                                /\ factory.log[i].path = path
                                /\ SetValues(path) = {factory.log[i].call.ret}
                        ELSE SetValues(path) = {value}
                  /\ \A value \in SetValues(path) :
                        Len(path) = 1 => At(factory.out, path) = value

\* a build on a copy, with the path x defined by all five arguments
C15_Witness ==
    /\ FactoryBuilt
    /\ factory.on = "copy"
    /\ \A items \in {factory.made, factory.copied} : HeldValue(items, parse_field_path(<<"x">>)) # {}
    /\ \A arg \in {factory.copy_override, factory.copy_kwargs, factory.override, factory.kwargs} :
          Given(arg, parse_field_path(<<"x">>)) # {}
    /\ At(factory.out, parse_field_path(<<"x">>)) = StrV("build_kwargs")

Again == factory.stage = "again"
\* no value of the dict of overrides is a callable
PlainValues(items) == \A i \in 1..Len(items) : ~callable(items[i].value)
\* no path of the dict goes on from another path of the dict
NoPathExtends(items) ==
    \A i, j \in 1..Len(items) :
        i # j => ~(Len(items[i].path) < Len(items[j].path)
                   /\ SubSeq(items[j].path, 1, Len(items[i].path)) = items[i].path)

RECURSIVE RecordBefore(_, _)
RecordBefore(log, i) ==
    IF i <= 1 THEN None
    ELSE IF log[i - 1].ev = "generate" THEN log[i - 1].value
    ELSE IF log[i - 1].ev = "set"
         THEN set_nested_value(RecordBefore(log, i - 1), log[i - 1].path, log[i - 1].value)
    ELSE RecordBefore(log, i - 1)
\* the records a call was given as obj, by position or by name
ObjsGiven(call) ==
    (IF Len(call.args) = 2 THEN {call.args[2]} ELSE {})
    \cup (IF "obj" \in DOMAIN call.kwargs THEN {call.kwargs["obj"]} ELSE {})
\* the generation of the record is the first thing a build does, and is done once
GeneratedFirst ==
    /\ factory.log # <<>> => factory.log[1] = Event("generate", <<>>, factory.data, NotCalled)
    /\ factory.log # <<>> => factory.data \in GeneratedRecords(FactoryFields)
    /\ \A i \in 2..Len(factory.log) : factory.log[i].ev \in {"call", "set"}
    /\ IsRaise(factory.data) => factory.log = <<>>

C20_MissingAtBounds ==
    chain.done =>
        \A e \in HintCalls :
            chain.hints[e.i].type = "MISSING" =>
                /\ chain.hints[e.i].pct = Pct(100) =>
                      (~Originates(e) /\ Cardinality(ContinuationCalls(e)) = 1)
                /\ chain.hints[e.i].pct = Pct(0) =>
                      (Originates(e) /\ ContinuationCalls(e) = {})

(***************************************************************************)
(* NumberHint.process_value with the whole payload: min, max, prec and the *)
(* distribution block.  A number is an int or a float, held as a count of  *)
(* hundredths (1.25 is 125); prec is None or an int.                       *)
(***************************************************************************)
IntN(n) == [k |-> "int", c |-> n * 100]
FloatN(c) == [k |-> "float", c |-> c]

NumberHintOf(min, max, prec, dist) ==
    [type |-> "NUMBER", min |-> min, max |-> max, prec |-> prec, dist |-> dist]

\* the builtins min(a, b) and max(a, b): the first argument unless the second
\* is strictly smaller (greater)
builtin_min(a, b) == IF b.c < a.c THEN b ELSE a
builtin_max(a, b) == IF b.c > a.c THEN b ELSE a

\* the multiple of step nearest to c; a tie that a float holds exactly (a
\* multiple of a quarter) goes to the even multiple, any other tie goes where
\* the float nearest to the decimal lies: down or up
RoundTo(c, step, tie) ==
    LET q == c \div step
        r == c % step
    IN  IF 2 * r < step THEN q * step
        ELSE IF 2 * r > step THEN (q + 1) * step
        ELSE IF c % 25 = 0 THEN (IF q % 2 = 0 THEN q ELSE q + 1) * step
        ELSE (q + tie) * step

\* the builtin round(value, ndigits)
round(value, ndigits, tie) ==
    IF ndigits = None THEN [k |-> "int", c |-> RoundTo(value.c, 100, tie)]
    ELSE IF value.k = "int" THEN value
    ELSE FloatN(RoundTo(value.c, CASE ndigits.n = 0 -> 100 [] ndigits.n = 1 -> 10 [] OTHER -> 1, tie))

DistributionBlocks == {"norm", "gamma", "beta", "lognorm", "expon", "weibull"}

\* the floats the model draws from
FloatGrid == {FloatN(c) : c \in {-100, 0, 100, 115, 120, 125, 135, 140, 145, 150, 200, 250, 300, 400}}

\* what the random module can return for the hint: with a distribution block
\* any float (the parameters and loc of the block are free), without one an
\* int of min..max for int bounds and a float of [min, max] otherwise
Variates(h) ==
    IF h.dist \in DistributionBlocks THEN FloatGrid
    ELSE IF h.min.k = "int" /\ h.max.k = "int"
         THEN {IntN(n) : n \in (h.min.c \div 100)..(h.max.c \div 100)}
    ELSE {v \in FloatGrid : h.min.c <= v.c /\ v.c <= h.max.c}

\* NumberHint.process_value(value, call_next) for the variate drawn
NumberHint_process_value_with(h, value, variate, tie) ==
    IF value = None
    THEN IF h.min = h.max
         THEN Return(h.min)
         ELSE CallNext(round(builtin_max(h.min, builtin_min(h.max, variate)), h.prec, tie))
    ELSE CallNext(value)

NumberBounds ==
    {IntN(n) : n \in 1..3} \cup {FloatN(c) : c \in {120, 125, 140, 150, 200, 250}}

NumberHints ==
    {NumberHintOf(lo, hi, prec, dist) :
        lo \in NumberBounds, hi \in NumberBounds,
        prec \in {None} \cup {IntV(p) : p \in 0..2},
        dist \in {"none"} \cup DistributionBlocks}

\* hint.process_value(seed, call_next) with a call_next that returns its argument
NumberHint_process ==
    /\ direct.stage = "none"
    /\ \E h \in NumberHints : \E seed \in {None, IntN(7)} :
       \E variate \in Variates(h) : \E tie \in {0, 1} :
          /\ h.min.c <= h.max.c
          /\ LET step == NumberHint_process_value_with(h, seed, variate, tie)
             IN  direct' = [stage |-> "number", hint |-> h, seed |-> seed, variate |-> variate,
                            ret |-> step.v, next |-> IF step.next THEN <<step.v>> ELSE <<>>]
    /\ UNCHANGED <<chain, fields, phase, record, emitted, factory, extracted>>

\* C18: every value a NUMBER hint generates from a null seed lies in
\* [min, max], for every distribution block and every prec, after the clamp
\* and the rounding.
C18_NumberWithinBounds ==
    (direct.stage = "number" /\ direct.seed = None) =>
        /\ direct.hint.min.c <= direct.ret.c
        /\ direct.ret.c <= direct.hint.max.c

(***************************************************************************)
(* DurationRangeHint.process_value.  Seconds are floats held as a count of *)
(* tenths of a second; a rendered string is the sequence of its            *)
(* characters.                                                             *)
(***************************************************************************)
Seconds(t) == [k |-> "float", t |-> t]
Chars(cs) == [k |-> "str", cs |-> cs]

DurationRangeHintOf(fmt, min, max, avg) ==
    [type |-> "DURATION", fmt |-> fmt, min |-> min, max |-> max, avg |-> avg]

DigitChars == <<"0", "1", "2", "3", "4", "5", "6", "7", "8", "9">>

\* f"{n}" of a natural number
RECURSIVE Digits(_)
Digits(n) == IF n < 10 THEN <<DigitChars[n + 1]>> ELSE Append(Digits(n \div 10), DigitChars[(n % 10) + 1])
\* f"{n:02d}"
Pad2(n) == IF n < 10 THEN <<"0">> \o Digits(n) ELSE Digits(n)
\* f"{fractional_part:.7f}"[2:].rstrip("0"), "0" when nothing is left
Fraction(tenths) == IF tenths = 0 THEN <<"0">> ELSE Digits(tenths)

\* the value process_value makes of the clamped seconds, by fmt
Render(fmt, t) ==
    LET days == t \div 864000
        hours == (t % 864000) \div 36000
        minutes == (t % 36000) \div 600
        seconds_remainder == t % 600
        integer_seconds == seconds_remainder \div 10
    IN  CASE fmt = "HMS" ->
               Chars(Pad2(t \div 36000) \o <<":">> \o Pad2(minutes) \o <<":">> \o Pad2(integer_seconds))
          [] fmt = "D.HMS.F" ->
               Chars(Digits(days) \o <<".">> \o Pad2(hours) \o <<":">> \o Pad2(minutes) \o <<":">>
                     \o Pad2(integer_seconds) \o <<".">> \o Fraction(seconds_remainder % 10))
          [] fmt = "D.HMS" ->
               Chars(Digits(days) \o <<".">> \o Pad2(hours) \o <<":">> \o Pad2(minutes) \o <<":">>
                     \o Pad2(integer_seconds))
          [] OTHER -> Seconds(t)

\* DurationRangeHint.process_value(value, call_next) for the variate drawn
DurationRangeHint_process_value(h, value, variate) ==
    IF value = None
    THEN LET seconds == IF variate < h.min THEN h.min ELSE IF h.max < variate THEN h.max ELSE variate
         IN  CallNext(Render(h.fmt, seconds))
    ELSE CallNext(value)

DurationFormats == {"HMS", "D.HMS", "D.HMS.F", "ISO8601_Days", "ISO8601_Weeks"}

\* half a second, a minute and a bit, an hour, a day, a day and a bit, a
\* hundred hours, a week
SecondsGrid == {0, 5, 615, 36000, 864000, 900615, 3600000, 6048000}

DurationHints ==
    {DurationRangeHintOf(fmt, lo, hi, avg) :
        fmt \in DurationFormats \cup {"SECONDS"},
        lo \in SecondsGrid, hi \in SecondsGrid, avg \in SecondsGrid}

\* random.normalvariate(avg, (max - min) / 6): any float, avg itself when min = max
DurationVariates(h) == IF h.min = h.max THEN {h.avg} ELSE SecondsGrid

\* hint.process_value(seed, call_next) with a call_next that returns its argument
DurationRangeHint_process ==
    /\ direct.stage = "none"
    /\ \E h \in DurationHints : \E seed \in {None, Chars(<<"x">>)} : \E variate \in DurationVariates(h) :
          /\ h.min <= h.avg /\ h.avg <= h.max
          /\ LET step == DurationRangeHint_process_value(h, seed, variate)
             IN  direct' = [stage |-> "duration", hint |-> h, seed |-> seed, variate |-> variate,
                            ret |-> step.v, next |-> IF step.next THEN <<step.v>> ELSE <<>>]
    /\ UNCHANGED <<chain, fields, phase, record, emitted, factory, extracted>>

NextDirect == NumberHint_process \/ DurationRangeHint_process

SpecDirect == Init /\ [][NextDirect]_vars

\* the patterns of the duration detector
IsDigits(cs) == cs # <<>> /\ \A i \in 1..Len(cs) : \E d \in 1..10 : cs[i] = DigitChars[d]
\* ^(\d{1,2}):(\d{2}):(\d{2})$
MatchesHMS(cs) ==
    /\ Len(cs) \in {7, 8}
    /\ LET h == Len(cs) - 6
       IN  /\ IsDigits(SubSeq(cs, 1, h))
           /\ cs[h + 1] = ":" /\ IsDigits(SubSeq(cs, h + 2, h + 3))
           /\ cs[h + 4] = ":" /\ IsDigits(SubSeq(cs, h + 5, h + 6))
\* ^(\d+)\.(\d{1,2}):(\d{2}):(\d{2})$
MatchesDHMS(cs) ==
    \E i \in 2..Len(cs) :
        IsDigits(SubSeq(cs, 1, i - 1)) /\ cs[i] = "." /\ MatchesHMS(SubSeq(cs, i + 1, Len(cs)))
\* ^(\d+\.)?(\d{1,2}):(\d{2}):(\d{2})\.(\d+)$
MatchesDHMSF(cs) ==
    \E j \in 2..(Len(cs) - 1) :
        /\ cs[j] = "." /\ IsDigits(SubSeq(cs, j + 1, Len(cs)))
        /\ MatchesHMS(SubSeq(cs, 1, j - 1)) \/ MatchesDHMS(SubSeq(cs, 1, j - 1))
\* ^P\d+D$ and ^P\d+W$
MatchesISO8601(cs, unit) ==
    Len(cs) >= 3 /\ cs[1] = "P" /\ cs[Len(cs)] = unit /\ IsDigits(SubSeq(cs, 2, Len(cs) - 1))

MatchesFormat(fmt, cs) ==
    CASE fmt = "HMS" -> MatchesHMS(cs)
      [] fmt = "D.HMS" -> MatchesDHMS(cs)
      [] fmt = "D.HMS.F" -> MatchesDHMSF(cs)
      [] fmt = "ISO8601_Days" -> MatchesISO8601(cs, "D")
      [] OTHER -> MatchesISO8601(cs, "W")

\* C19: for each of the five fmt values a DURATION hint generates a string in
\* that format (P<n>D and P<n>W for the ISO8601 ones), which matches the
\* pattern of the detector; raw seconds are returned only for another fmt.
C19_DurationRendered ==
    (direct.stage = "duration" /\ direct.seed = None) =>
        IF direct.hint.fmt \in DurationFormats
        THEN direct.ret.k = "str" /\ MatchesFormat(direct.hint.fmt, direct.ret.cs)
        ELSE direct.ret.k = "float"

(***************************************************************************)
(* The dynamic-key oracle (pydantic_models.py).  An annotation is a        *)
(* generic alias (origin list, dict or union, with its arguments) or a     *)
(* plain type (origin "none", cls the name of the type); a model class is  *)
(* the function from its field names to their annotations.                 *)
(***************************************************************************)
Ann(origin, args, cls) == [origin |-> origin, args |-> args, cls |-> cls]
Plain(cls) == Ann("none", <<>>, cls)
ListOf(arg) == Ann("list", <<arg>>, "")
DictOf(arg) == Ann("dict", <<Plain("str"), arg>>, "")
Optional(arg) == Ann("union", <<arg, Plain("NoneType")>>, "")

\* the model classes of the model: Flat has a dict field; Outer nests Inner,
\* directly and in a list, and has a list of dicts; Keyed is a RootModel over
\* a dict and Holder has a field of it; TreeNode has a field of its own type,
\* Ping and Pong refer to each other
ModelClasses ==
    [c \in {"Flat", "Inner", "Outer", "Keyed", "Holder", "TreeNode", "Ping", "Pong"} |->
        CASE c = "Flat" ->
                ("a" :> Plain("int")) @@ ("d" :> DictOf(Plain("int")))
                @@ ("l" :> ListOf(Plain("int")))
          [] c = "Inner" ->
                ("b" :> Plain("int")) @@ ("d" :> DictOf(Plain("int")))
          [] c = "Outer" ->
                ("a" :> Plain("Inner")) @@ ("l" :> ListOf(Plain("Inner")))
                @@ ("m" :> ListOf(DictOf(Plain("int"))))
          [] c = "Keyed" ->
                ("root" :> DictOf(Plain("int")))
          [] c = "Holder" ->
                ("d" :> Optional(Plain("Keyed"))) @@ ("b" :> Plain("int"))
          [] c = "TreeNode" ->
                ("b" :> Plain("int")) @@ ("a" :> Optional(Plain("TreeNode")))
          [] c = "Ping" ->
                ("a" :> Plain("Pong")) @@ ("d" :> DictOf(Plain("int")))
          [] OTHER ->
                ("a" :> Optional(Plain("Ping"))) @@ ("b" :> Plain("int"))]

\* isinstance(annotation, type) and issubclass(annotation, BaseModel)
IsBaseModel(annotation) ==
    annotation.origin = "none" /\ annotation.cls \in DOMAIN ModelClasses

\* _is_dynamic_dict_field
RECURSIVE is_dynamic_dict_field(_)
is_dynamic_dict_field(annotation) ==
    IF annotation.origin = "dict" THEN TRUE
    ELSE IF annotation.origin # "none"
            /\ \E i \in 1..Len(annotation.args) :
                  /\ annotation.args[i] # Plain("NoneType")
                  /\ is_dynamic_dict_field(annotation.args[i])
    THEN TRUE
    ELSE IF IsBaseModel(annotation) /\ "root" \in DOMAIN ModelClasses[annotation.cls]
    THEN is_dynamic_dict_field(ModelClasses[annotation.cls]["root"])
    ELSE annotation.cls = "Dict"

\* _resolve_nested_model: the class itself, or the first argument of the alias
\* that resolves to a class; "" for None
RECURSIVE resolve_nested_model(_)
resolve_nested_model(annotation) ==
    IF IsBaseModel(annotation) THEN annotation.cls
    ELSE IF annotation.origin # "none"
    THEN LET found == {i \in 1..Len(annotation.args) :
                          /\ annotation.args[i] # Plain("NoneType")
                          /\ resolve_nested_model(annotation.args[i]) # ""}
         IN  IF found = {} THEN ""
             ELSE resolve_nested_model(
                      annotation.args[CHOOSE i \in found : \A j \in found : i <= j])
    ELSE ""

\* f"{json_field_name}.{nested_field}" on field paths as token sequences
Nested(name, paths) == {<<name, ".">> \o p : p \in paths}

\* analyze_pydantic_model at the given depth of the Python stack: the set of
\* dynamic field paths, or the RecursionError of a call past the limit
RECURSIVE analyze_pydantic_model(_, _)
analyze_pydantic_model(model_class, depth) ==
    IF depth > RecursionLimit THEN [raises |-> TRUE, paths |-> {}]
    ELSE LET model_fields == ModelClasses[model_class]
             nested(name) == resolve_nested_model(model_fields[name])
             below == [name \in {x \in DOMAIN model_fields : nested(x) # ""} |->
                          analyze_pydantic_model(nested(name), depth + 1)]
         IN  IF \E name \in DOMAIN below : below[name].raises
             THEN [raises |-> TRUE, paths |-> {}]
             ELSE [raises |-> FALSE,
                   paths |->
                      {<<name>> : name \in {x \in DOMAIN model_fields :
                                              is_dynamic_dict_field(model_fields[x])}}
                      \cup UNION {Nested(name, below[name].paths) : name \in DOMAIN below}]

(***************************************************************************)
(* Extraction (extract.py).  The evidence is the ExtractedData and the     *)
(* stores the array and the object analyzer collect into.  A defaultdict   *)
(* of counts is the function from the keys seen to their counts; a dict of *)
(* Counters is the function from the pairs <<field, value>> seen.          *)
(***************************************************************************)
\* counts[x] = 1: the count does not grow
Inc_Once(counts, x) ==
    [y \in DOMAIN counts \cup {x} |-> IF y = x THEN 1 ELSE counts[y]]

\* counts[x] += 1 on a defaultdict(int) or a Counter
Inc(counts, x) ==
    [y \in DOMAIN counts \cup {x} |->
        IF y = x THEN (IF x \in DOMAIN counts THEN counts[x] ELSE 0) + 1
        ELSE counts[y]]

\* counts.get(x, 0)
CountOf(counts, x) == IF x \in DOMAIN counts THEN counts[x] ELSE 0

\* ExtractedData(dynamic_object_fields=...) and Analyzers()
NoData(dynamic_object_fields) ==
    [ed |-> [item_count |-> 0, data_point_count |-> 0, field_paths |-> {},
             field_presence |-> <<>>, field_value_counts |-> <<>>,
             field_null_counts |-> <<>>, parent_presence |-> <<>>,
             dynamic_object_fields |-> dynamic_object_fields],
     az |-> [field_length_counts |-> <<>>, field_key_counts |-> <<>>,
             field_key_patterns |-> <<>>]]

\* isinstance(value, SimpleType)
IsSimple(value) == value.k \in {"int", "str"}

\* current_path.replace("[]", "")
StripArrayMarkers(path) == SelectSeq(path, LAMBDA t : t # "[]")

\* ObjectAnalyzer: the key count of one object and its keys
RECURSIVE CollectKeys(_, _, _)
CollectKeys(patterns, field, keys) ==
    IF keys = {} THEN patterns
    ELSE LET key == CHOOSE x \in keys : TRUE
         IN  CollectKeys(Inc(patterns, <<field, key>>), field, keys \ {key})

ObjectAnalyzer_collect_one(az, field, keys) ==
    [az EXCEPT !.field_key_counts = Inc(@, <<field, Cardinality(keys)>>),
               !.field_key_patterns = CollectKeys(@, field, keys)]

\* ArrayAnalyzer: the length of one array
ArrayAnalyzer_collect_one(az, field, length) ==
    [az EXCEPT !.field_length_counts = Inc(@, <<field, length>>)]

\* every function below returns the stores it leaves and the data point count
\* it returns
Counted(st, n) == [st |-> st, n |-> n]

RECURSIVE extract_object_data(_, _, _, _)
RECURSIVE process_object_value(_, _, _)
RECURSIVE process_dict_value(_, _, _)
RECURSIVE process_dynamic_values(_, _, _, _)
RECURSIVE process_list_value(_, _, _)
RECURSIVE process_list_items(_, _, _, _)
RECURSIVE process_list_item(_, _, _)

\* _extract_object_data: the loop over the keys of obj not visited yet
extract_object_data(obj, keys, parent_path, st) ==
    IF keys = {} THEN Counted(st, 0)
    ELSE LET key == CHOOSE x \in keys : TRUE
             current_path == IF parent_path = <<>> THEN <<key.s>>
                             ELSE parent_path \o <<".", key.s>>
             one == process_object_value(current_path, obj.m[key], st)
             rest == extract_object_data(obj, keys \ {key}, parent_path, one.st)
         IN  Counted(rest.st, one.n + rest.n)

\* _process_object_value
process_object_value(current_path, value, st) ==
    LET tracked == [st EXCEPT !.ed.field_paths = @ \cup {current_path},
                              !.ed.field_presence = Inc(@, current_path)]
    IN  IF value = None
        THEN Counted([tracked EXCEPT !.ed.field_null_counts = Inc(@, current_path)], 1)
        ELSE IF IsSimple(value)
        THEN Counted([tracked EXCEPT
                         !.ed.field_value_counts = Inc(@, <<current_path, value>>)], 1)
        ELSE IF IsDict(value)
        THEN LET r == process_dict_value(current_path, value, tracked)
             IN  Counted(r.st, 1 + r.n)
        ELSE IF IsList(value)
        THEN LET r == process_list_value(current_path, value, tracked)
             IN  Counted(r.st, 1 + r.n)
        ELSE Counted(tracked, 1)

\* _process_dict_value
process_dict_value(current_path, value, st) ==
    LET present == [st EXCEPT !.ed.parent_presence = Inc(@, current_path)]
    IN  IF StripArrayMarkers(current_path) \in st.ed.dynamic_object_fields
        THEN process_dynamic_values(
                 value, DOMAIN value.m, current_path \o <<".", "{}">>,
                 [present EXCEPT
                     !.az = ObjectAnalyzer_collect_one(@, current_path, DOMAIN value.m)])
        ELSE extract_object_data(value, DOMAIN value.m, current_path, present)

\* the loop of _process_dict_value over value.values()
process_dynamic_values(obj, keys, dynamic_children_path, st) ==
    IF keys = {} THEN Counted(st, 0)
    ELSE LET key == CHOOSE x \in keys : TRUE
             one == process_object_value(dynamic_children_path, obj.m[key], st)
             rest == process_dynamic_values(obj, keys \ {key}, dynamic_children_path, one.st)
         IN  Counted(rest.st, one.n + rest.n)

\* _process_list_value
process_list_value(current_path, value, st) ==
    process_list_items(
        value.xs, 1, current_path \o <<"[]">>,
        [st EXCEPT !.az = ArrayAnalyzer_collect_one(@, current_path, Len(value.xs))])

\* the loop of _process_list_value over the items
process_list_items(xs, i, item_path, st) ==
    IF i > Len(xs) THEN Counted(st, 0)
    ELSE LET one == process_list_item(item_path, xs[i], st)
             rest == process_list_items(xs, i + 1, item_path, one.st)
         IN  Counted(rest.st, one.n + rest.n)

\* _process_list_item
process_list_item(item_path, item, st) ==
    IF IsDict(item)
    THEN extract_object_data(
             item, DOMAIN item.m, item_path,
             [st EXCEPT !.ed.parent_presence = Inc(@, item_path)])
    ELSE LET tracked == [st EXCEPT !.ed.field_paths = @ \cup {item_path}]
             counted ==
                IF item = None
                THEN [tracked EXCEPT !.ed.field_null_counts = Inc(@, item_path)]
                ELSE IF IsSimple(item)
                THEN [tracked EXCEPT !.ed.field_value_counts = Inc(@, <<item_path, item>>)]
                ELSE tracked
         IN  Counted([counted EXCEPT !.ed.field_presence = Inc(@, item_path)], 0)

\* one turn of the loop of extract_data
extract_item(item, st) ==
    LET r == extract_object_data(item, DOMAIN item.m, <<>>,
                                 [st EXCEPT !.ed.item_count = @ + 1])
    IN  [r.st EXCEPT !.ed.data_point_count = @ + r.n]

\* extract_data on the items from the i-th on
RECURSIVE extract_items(_, _, _)
extract_items(items, i, st) ==
    IF i > Len(items) THEN st
    ELSE extract_items(items, i + 1, extract_item(items[i], st))

(***************************************************************************)
(* Specification of the extraction: extract_data analyses the model class  *)
(* it is given, then takes the items one by one.                           *)
(***************************************************************************)
\* most items of one extraction
MaxItems == 2

\* the dict with the given keys and values
Obj1(k1, v1) == StaticDict(StrV(k1) :> v1)
Obj2(k1, v1, k2, v2) == StaticDict((StrV(k1) :> v1) @@ (StrV(k2) :> v2))
EmptyObj == StaticDict(<<>>)
X == Chars(<<"x">>)

\* the items: scalars and nulls, nested, empty and keyed objects (one keyed
\* by a digit string), arrays of scalars, of objects, of empty objects and of
\* arrays, and an empty array
Items ==
    {EmptyObj,
     Obj1("a", IntV(1)),
     Obj1("a", None),
     Obj2("a", X, "b", IntV(2)),
     Obj1("a", EmptyObj),
     Obj1("a", Obj1("b", IntV(1))),
     Obj1("a", Obj1("d", Obj2("k1", IntV(1), "k2", None))),
     Obj1("d", Obj2("k1", IntV(1), "k2", IntV(2))),
     Obj1("d", Obj1("k1", Obj1("b", X))),
     Obj1("d", EmptyObj),
     Obj1("d", Obj1("1", IntV(1))),
     Obj1("l", List(<<>>)),
     Obj1("l", List(<<IntV(1), None>>)),
     Obj1("l", List(<<Obj1("b", IntV(1)), EmptyObj>>)),
     Obj1("l", List(<<Obj1("d", Obj1("k1", IntV(1)))>>)),
     Obj1("l", List(<<List(<<IntV(1)>>)>>)),
     Obj1("m", List(<<Obj2("k1", IntV(1), "k2", IntV(2))>>))}

\* the model argument of extract_data: None, or a model class
Models == {"none"} \cup DOMAIN ModelClasses

\* extract_data(items, az=az, model=model) up to its loop: the oracle of the
\* model, or the exception analyze_pydantic_model raises
AnalyzeModel ==
    /\ extracted.stage = "model"
    /\ \E model \in Models :
          LET r == IF model = "none" THEN [raises |-> FALSE, paths |-> {}]
                   ELSE analyze_pydantic_model(model, 1)
          IN  extracted' =
                 IF r.raises
                 THEN [extracted EXCEPT !.stage = "raised", !.model = model,
                                        !.out = Raise("RecursionError")]
                 ELSE [extracted EXCEPT !.stage = "items", !.model = model,
                                        !.st = NoData(r.paths)]
    /\ UNCHANGED <<chain, fields, phase, record, emitted, factory, direct>>

\* one turn of the loop of extract_data
ExtractItem ==
    /\ extracted.stage = "items"
    /\ Len(extracted.items) < MaxItems
    /\ \E item \in Items :
          extracted' = [extracted EXCEPT !.items = Append(@, item),
                                         !.st = extract_item(item, @)]
    /\ UNCHANGED <<chain, fields, phase, record, emitted, factory, direct>>


(***************************************************************************)
(* Reading the extraction.                                                 *)
(***************************************************************************)
Extracting == extracted.stage = "items"
Evidence == extracted.st.ed
Collected == extracted.st.az

\* C30: the schema analysis that computes the dynamic-key path set returns
\* a set of paths for every model class it is given, a class that refers to
\* itself directly or through other classes included: it never ends in an
\* exception.
C30_AnalysisReturns ==
    extracted.model # "none" => extracted.stage # "raised"

\* the sum of the counts of a store over the given keys
RECURSIVE SumOver(_, _)
SumOver(counts, keys) ==
    IF keys = {} THEN 0
    ELSE LET x == CHOOSE y \in keys : TRUE
         IN  counts[x] + SumOver(counts, keys \ {x})

\* how many samples a store of <<field, value>> counts holds for the field
SamplesAt(counts, field) == SumOver(counts, {x \in DOMAIN counts : x[1] = field})

\* C22: every object visited at a path P whose path without array markers
\* is listed by the oracle is treated as dynamic, whether it is the value of
\* a key or an element of an array: one size sample is collected for P per
\* object visited at P, and the evidence has no path P.<key>, only P.{}.
C22_DynamicEverywhere ==
    Extracting =>
        /\ \A P \in DOMAIN Evidence.parent_presence :
              StripArrayMarkers(P) \in Evidence.dynamic_object_fields
              => SamplesAt(Collected.field_key_counts, P) = Evidence.parent_presence[P]
        /\ \A p \in Evidence.field_paths : \A n \in 1..(Len(p) - 2) :
              (/\ StripArrayMarkers(SubSeq(p, 1, n)) \in Evidence.dynamic_object_fields
               /\ p[n + 1] = ".")
              => p[n + 2] = "{}"

\* the scalar and null values of an item
ScalarsAndNulls(item) ==
    {pos \in Positions(item) : At(item, pos) = None \/ IsSimple(At(item, pos))}

RECURSIVE DataPoints(_, _)
DataPoints(items, i) ==
    IF i > Len(items) THEN 0
    ELSE Cardinality(ScalarsAndNulls(items[i])) + DataPoints(items, i + 1)

\* C23: the data-point count is the number of scalar and null values of the
\* items taken so far, object values and array elements alike; objects and
\* arrays themselves count nothing.
C23_CountsScalarsAndNulls ==
    Extracting => Evidence.data_point_count = DataPoints(extracted.items, 1)

\* the sum of two stores of counts
MergeCounts(c1, c2) ==
    [x \in DOMAIN c1 \cup DOMAIN c2 |-> CountOf(c1, x) + CountOf(c2, x)]

\* the evidence of two extractions merged: counters summed, sets united
MergeStores(s1, s2) ==
    [ed |-> [item_count |-> s1.ed.item_count + s2.ed.item_count,
             data_point_count |-> s1.ed.data_point_count + s2.ed.data_point_count,
             field_paths |-> s1.ed.field_paths \cup s2.ed.field_paths,
             field_presence |-> MergeCounts(s1.ed.field_presence, s2.ed.field_presence),
             field_value_counts |->
                MergeCounts(s1.ed.field_value_counts, s2.ed.field_value_counts),
             field_null_counts |->
                MergeCounts(s1.ed.field_null_counts, s2.ed.field_null_counts),
             parent_presence |-> MergeCounts(s1.ed.parent_presence, s2.ed.parent_presence),
             dynamic_object_fields |->
                s1.ed.dynamic_object_fields \cup s2.ed.dynamic_object_fields],
     az |-> [field_length_counts |->
                MergeCounts(s1.az.field_length_counts, s2.az.field_length_counts),
             field_key_counts |->
                MergeCounts(s1.az.field_key_counts, s2.az.field_key_counts),
             field_key_patterns |->
                MergeCounts(s1.az.field_key_patterns, s2.az.field_key_patterns)]]

\* extract_data on the items, under the oracle of the run
ExtractAll(items) ==
    extract_items(items, 1, NoData(Evidence.dynamic_object_fields))

Orders(n) == {f \in [1..n -> 1..n] : \A i, j \in 1..n : f[i] = f[j] => i = j}

Digit == {DigitChars[i] : i \in 1..Len(DigitChars)}
Hex == Digit \cup {"a", "b", "c", "d", "e", "f", "A", "B", "C", "D", "E", "F"}
Rep(set, lo, hi) == [set |-> set, lo |-> lo, hi |-> hi]
Digit_(n) == Rep(Digit, n, n)
DigitPlus == Rep(Digit, 1, -1)
Hex_(n) == Rep(Hex, n, n)
Lit(c) == Rep({c}, 1, 1)

\* the characters of cs from position i on match the items of pat from j on
RECURSIVE MatchFrom(_, _, _, _)
MatchFrom(cs, i, pat, j) ==
    IF j > Len(pat) THEN i = Len(cs) + 1
    ELSE \E n \in pat[j].lo..(IF pat[j].hi < 0 THEN Len(cs) ELSE pat[j].hi) :
            /\ i + n - 1 <= Len(cs)
            /\ \A x \in i..(i + n - 1) : cs[x] \in pat[j].set
            /\ MatchFrom(cs, i + n, pat, j + 1)

\* re.match(r"^...$", v) for a regular expression given by its alternatives
re_match(alternatives, v) == \E pat \in alternatives : MatchFrom(v.cs, 1, pat, 1)

\* \d{4}-\d{2}-\d{2}
YMD == <<Digit_(4), Lit("-"), Digit_(2), Lit("-"), Digit_(2)>>
\* \d{2}:\d{2}:\d{2}
HMS == <<Digit_(2), Lit(":"), Digit_(2), Lit(":"), Digit_(2)>>
\* [+-]\d{2}:\d{2}
Offset == <<Rep({"+", "-"}, 1, 1), Digit_(2), Lit(":"), Digit_(2)>>

\* the regular expression of each DATETIME creator, in the order of
\* PATTERN_HINT_CREATORS
DatetimePatterns ==
    <<{YMD \o <<Lit("T")>> \o HMS \o <<Lit("Z")>>,
       YMD \o <<Lit("T")>> \o HMS \o Offset},
      {YMD \o <<Lit("T")>> \o HMS \o <<Lit("Z")>>,
       YMD \o <<Lit("T")>> \o HMS \o <<Lit("."), DigitPlus, Lit("Z")>>},
      {YMD \o <<Lit("T")>> \o HMS \o <<Lit("."), Digit_(6)>> \o Offset},
      {<<Digit_(10)>>},
      {<<Digit_(13)>>},
      {YMD \o <<Lit(" ")>> \o HMS},
      {<<Digit_(2), Lit("/"), Digit_(2), Lit("/"), Digit_(4), Lit(" ")>> \o HMS}>>

\* ^(\d+\.)?(\d{1,2}):(\d{2}):(\d{2})(\.(\d+))?$
DurationPattern ==
    LET hms == <<Rep(Digit, 1, 2), Lit(":"), Digit_(2), Lit(":"), Digit_(2)>>
    IN  {hms, <<DigitPlus, Lit(".")>> \o hms, hms \o <<Lit("."), DigitPlus>>,
         <<DigitPlus, Lit(".")>> \o hms \o <<Lit("."), DigitPlus>>}

\* ^([0-9A-Fa-f]{2}[:-]){5}([0-9A-Fa-f]{2})$
MacPattern ==
    LET pair == <<Hex_(2), Rep({":", "-"}, 1, 1)>>
    IN  {pair \o pair \o pair \o pair \o pair \o <<Hex_(2)>>}

\* ^[0-9a-f]{8}-[0-9a-f]{4}-[0-9a-f]{4}-[0-9a-f]{4}-[0-9a-f]{12}$ on v.lower()
UuidPattern ==
    {<<Hex_(8), Lit("-"), Hex_(4), Lit("-"), Hex_(4), Lit("-"), Hex_(4), Lit("-"), Hex_(12)>>}

\* v.startswith("auth0|")
StartsWithAuth0(v) ==
    Len(v.cs) >= 6 /\ SubSeq(v.cs, 1, 6) = <<"a", "u", "t", "h", "0", "|">>

\* int(v) of a string of digits
RECURSIVE IntOfDigits(_)
IntOfDigits(cs) ==
    IF cs = <<>> THEN 0
    ELSE 10 * IntOfDigits(SubSeq(cs, 1, Len(cs) - 1))
         + (CHOOSE d \in 0..9 : DigitChars[d + 1] = cs[Len(cs)])

\* the least and the greatest of a set of integers
MinOf(ns) == CHOOSE n \in ns : \A o \in ns : n <= o
MaxOf(ns) == CHOOSE n \in ns : \A o \in ns : n >= o

\* create_text_hint: more than a quarter of the values are longer than 30
\* characters and have 5 spaces or more
create_text_hint(values) ==
    LET long == {v \in values :
                    /\ Len(v.cs) > 30
                    /\ Cardinality({i \in 1..Len(v.cs) : v.cs[i] = " "}) >= 5}
    IN  IF values = {} \/ 4 * Cardinality(long) <= Cardinality(values) THEN <<>>
        ELSE <<PatternHint("TEXT")>>

\* PATTERN_HINT_CREATORS: each creator on the values, as no hint or one hint.
\* A timestamp of the model names an instant, so that _parse_timestamp takes
\* every value that matches.
PATTERN_HINT_CREATORS(values) ==
    LET all(alternatives) == \A v \in values : re_match(alternatives, v)
        one(matches, hint) == IF matches THEN <<hint>> ELSE <<>>
    IN  [i \in 1..7 |-> one(values # {} /\ all(DatetimePatterns[i]), PatternHint("DATETIME"))]
        \o <<one(values # {} /\ all(DurationPattern), PatternHint("DURATION")),
             one(values # {} /\ all({<<Lit("P"), DigitPlus, Lit("D")>>}), PatternHint("DURATION")),
             one(values # {} /\ all({<<Lit("P"), DigitPlus, Lit("W")>>}), PatternHint("DURATION")),
             one(\A v \in values : StartsWithAuth0(v), PatternHint("AUTH0_ID")),
             one(all(MacPattern), PatternHint("MAC")),
             one(all(UuidPattern), PatternHint("UUID4")),
             one(all({<<DigitPlus, Lit("."), DigitPlus, Lit("."), DigitPlus>>,
                      <<DigitPlus, Lit("."), DigitPlus, Lit("."), DigitPlus, Lit("."), DigitPlus>>}),
                 PatternHint("VERSION")),
             one(all({<<DigitPlus, Lit("."), DigitPlus>>}), PatternHint("VERSION")),
             one(all({YMD}), PatternHint("DATE")),
             IF \A v \in values : IsDigits(v.cs)
             THEN <<NumberStringHint(MinOf({IntOfDigits(v.cs) : v \in values}),
                                     MaxOf({IntOfDigits(v.cs) : v \in values}))>>
             ELSE <<>>,
             create_text_hint(values)>>

\* isinstance(value, str)
IsStr(value) == value.k = "str"

\* StringPatternAnalyzer.analyze_all, then get_hint: the hint of the first
\* creator that returns one
StringPatternAnalyzer_analyze_all(values) ==
    IF values = {} \/ \E v \in values : ~IsStr(v) THEN <<>>
    ELSE LET made == PATTERN_HINT_CREATORS(values)
             hits == {i \in 1..Len(made) : made[i] # <<>>}
         IN  IF hits = {} THEN <<>> ELSE made[MinOf(hits)]

\* the least number of distinct values the alphanumeric analyzer takes
MIN_VALUES_FOR_ALPLHANUMERIC == 10

\* AlphanumericAnalyzer.analyze_field_value_counts, then get_hint
AlphanumericAnalyzer_analyze_all(values) ==
    IF Cardinality(values) < MIN_VALUES_FOR_ALPLHANUMERIC THEN <<>>
    ELSE IF \E v \in values : ~IsStr(v) THEN <<>>
    ELSE IF Cardinality({Len(v.cs) : v \in values}) # 1 THEN <<>>
    ELSE <<PatternHint("ALPHA")>>

\* a set as a list, in some order
RECURSIVE ListOfSet(_)
ListOfSet(set) ==
    IF set = {} THEN <<>>
    ELSE LET x == CHOOSE y \in set : TRUE
         IN  <<x>> \o ListOfSet(set \ {x})

\* ChoiceAnalyzer.get_hint
ChoiceAnalyzer_get_hint(values) ==
    IF Cardinality(values) >= 2 THEN <<ChoiceHint(ListOfSet(values))>>
    ELSE IF values # {} THEN <<ConstantValueHint(CHOOSE v \in values : TRUE)>>
    ELSE <<>>

(***************************************************************************)
(* Specification of the value analysis of one field of strings: the        *)
(* analyzers run on the distinct values of the field as create_spec runs   *)
(* them, then _get_hints puts the field's hint list together.              *)
(***************************************************************************)
\* the i-th string of a family of values, i a digit
Word(family, i) ==
    LET d == DigitChars[i + 1]
        prose == [j \in 1..32 |-> IF j % 2 = 0 THEN " " ELSE "a"]
    IN  CASE family = "prose" -> Chars(prose \o <<d>>)
          [] family = "essay" -> Chars(prose \o [j \in 1..(i + 1) |-> "b"])
          [] family = "word" -> Chars(<<"w", d>>)
          [] family = "digits" -> Chars(<<d>>)
          [] family = "unix" -> Chars(<<"1", "7", "0", "0", "0", "0", "0", "0", "0", d>>)
          [] family = "iso" ->
                Chars(<<"2", "0", "2", "4", "-", "0", "1", "-", "0", "1", "T",
                        "0", "0", ":", "0", "0", ":", "0", d, "Z">>)
          [] family = "date" -> Chars(<<"2", "0", "2", "4", "-", "0", "1", "-", "1", d>>)
          [] family = "hms" -> Chars(<<"0", "1", ":", "0", "2", ":", "0", d>>)
          [] family = "days" -> Chars(<<"P", d, "D">>)
          [] family = "auth0" -> Chars(<<"a", "u", "t", "h", "0", "|", d>>)
          [] family = "mac" ->
                Chars(<<"0", "0", ":", "1", "1", ":", "2", "2", ":", "3", "3", ":",
                        "4", "4", ":", "a", d>>)
          [] family = "uuid" ->
                Chars([j \in 1..36 |-> IF j \in {9, 14, 19, 24} THEN "-"
                                       ELSE IF j = 36 THEN d ELSE "f"])
          [] family = "version" -> Chars(<<"1", ".", "2", ".", d>>)
          [] family = "short" -> Chars(<<"1", ".", d>>)
          [] OTHER -> IntV(i)

Families ==
    {"prose", "essay", "word", "digits", "unix", "iso", "date", "hms", "days",
     "auth0", "mac", "uuid", "version", "short"}

\* the distinct values of a field: the first strings of one family, alone or
\* with a string of another family or an integer
ValueSets ==
    {{Word(f1, i) : i \in 0..(n - 1)} \cup more :
        f1 \in Families, n \in {1, 2, MIN_VALUES_FOR_ALPLHANUMERIC},
        more \in {{}} \cup {{Word(f2, 0)} : f2 \in Families \cup {"int"}}}

\* the least sample a fitter takes
LeastSample == MinOf({DISTRIBUTION_FITTERS[i].least : i \in 1..Len(DISTRIBUTION_FITTERS)})

\* the values of a Counter, each as often as it was counted
Total(value_counts) == SumOver(value_counts, DOMAIN value_counts)

\* NumericAnalyzer.analyze_all, then get_hint, on a Counter of fewer values
\* than any fitter takes: _get_best_distribution_hint has no hint for it
NumericAnalyzer_analyze_few(value_counts) ==
    LET values == DOMAIN value_counts
    IN  IF values = {} \/ \E v \in values : ~IsInt(v) THEN <<>>
        ELSE LET ns == {v.n : v \in values}
             IN  <<NumberHint(MinOf(ns), MaxOf(ns))>>

\* the loop body of create_spec over field_value_counts: the pattern analyzer
\* runs when the numeric one declined, the alphanumeric one when both did
AnalyzeStrings ==
    /\ emitted.stage = "lengths"
    /\ \E values \in ValueSets :
          LET numeric == NumericAnalyzer_analyze_few([v \in values |-> 1])
              pattern == IF numeric = <<>>
                         THEN StringPatternAnalyzer_analyze_all(values) ELSE <<>>
              alpha == IF numeric = <<>> /\ pattern = <<>>
                       THEN AlphanumericAnalyzer_analyze_all(values) ELSE <<>>
          IN  emitted' = [emitted EXCEPT !.stage = "counted", !.values = values,
                                         !.numeric = numeric, !.pattern = pattern,
                                         !.alpha = alpha,
                                         !.choice = ChoiceAnalyzer_get_hint(values)]
    /\ UNCHANGED <<chain, fields, phase, record, factory, direct, extracted>>

NextPattern == AnalyzeStrings \/ GetHints

SpecPattern == Init /\ [][NextPattern]_vars

\* the tag has a detector that returns a hint on the values
Detects(tag, values) ==
    IF tag = "ALPHA" THEN AlphanumericAnalyzer_analyze_all(values) # <<>>
    ELSE LET made == PATTERN_HINT_CREATORS(values)
         IN  \E i \in 1..Len(made) : made[i] # <<>> /\ made[i][1].type = tag

\* the priority order of the detectors as stated
StatedOrder ==
    <<"DATETIME", "DATE", "DURATION", "AUTH0_ID", "MAC", "UUID4", "VERSION", "NUMSTR",
      "ALPHA", "TEXT">>

OfStrings == emitted.stage = "emitted" /\ emitted.values # {} /\ \A v \in emitted.values : IsStr(v)

\* C24: for a field whose values are all strings, the hint chosen is that
\* of the first detector, in the order DATETIME, DATE, DURATION, AUTH0_ID,
\* MAC, UUID4, VERSION, NUMSTR, ALPHA, TEXT, that matches the values: no
\* detector later in the order is chosen when an earlier one matches, and
\* ALPHA comes before TEXT.
C24_FirstDetectorWins ==
    OfStrings =>
        \A i \in 1..Len(StatedOrder) :
            (/\ Detects(StatedOrder[i], emitted.values)
             /\ \A j \in 1..(i - 1) : ~Detects(StatedOrder[j], emitted.values))
            => emitted.hints[1].type = StatedOrder[i]

(***************************************************************************)
(* create_spec after the extraction (create_spec.py, json_spec.py): the    *)
(* analyzers run on the stores, build_json_spec asks _get_hints for every  *)
(* field path, and the factory is made of the document and builds.         *)
(***************************************************************************)
\* the characters of the key names of the items
Spelling(name) ==
    CASE name = "k1" -> Chars(<<"k", "1">>)
      [] name = "k2" -> Chars(<<"k", "2">>)
      [] OTHER -> Chars(<<name>>)

\* counts[field]: the Counter of one field in a dict of Counters
CounterAt(counts, field) ==
    [v \in {x[2] : x \in {y \in DOMAIN counts : y[1] = field}} |-> counts[<<field, v>>]]

\* a _get_parent_path that knows no parent
get_parent_path_TopLevel(field_path) == <<>>

\* PresenceAnalyzer._get_parent_path: the path up to its last dot, <<>> for None
get_parent_path(field_path) ==
    IF \E i \in 1..Len(field_path) : field_path[i] = "."
    THEN SubSeq(field_path, 1,
                MaxOf({i \in 1..Len(field_path) : field_path[i] = "."}) - 1)
    ELSE <<>>

\* the denominator PresenceAnalyzer.get_hint takes for the field
total_records(st, field) ==
    LET parent_path == get_parent_path(field)
    IN  IF parent_path # <<>> /\ parent_path \in DOMAIN st.ed.parent_presence
        THEN st.ed.parent_presence[parent_path]
        ELSE st.ed.item_count

\* the numeric samples of the stores are smaller than any fitter takes
FewValues(st) ==
    \A field \in st.ed.field_paths :
        /\ Total(CounterAt(st.ed.field_value_counts, field)) < LeastSample
        /\ Total(CounterAt(st.az.field_length_counts, field)) < LeastSample
        /\ Total(CounterAt(st.az.field_key_counts, field)) < LeastSample

\* what the analyzers hold on one field once the analysis loops of
\* create_spec are done.  lengths and key_counts tell how many arrays and
\* objects were collected at the field.
FieldEvidence(st, field) ==
    LET lengths == CounterAt(st.az.field_length_counts, field)
        key_counts == CounterAt(st.az.field_key_counts, field)
        keys == {Spelling(x[2].s) : x \in {y \in DOMAIN st.az.field_key_patterns : y[1] = field}}
        value_counts == CounterAt(st.ed.field_value_counts, field)
        values == DOMAIN value_counts
        numeric == NumericAnalyzer_analyze_few(value_counts)
        pattern == IF numeric = <<>> THEN StringPatternAnalyzer_analyze_all(values) ELSE <<>>
        alpha == IF numeric = <<>> /\ pattern = <<>>
                 THEN AlphanumericAnalyzer_analyze_all(values) ELSE <<>>
    IN  [NoEvidence EXCEPT
            !.stage = "counted",
            !.lengths = <<Total(lengths), 0>>,
            !.length_hint = NumericAnalyzer_analyze_few(
                                [v \in {IntV(n) : n \in DOMAIN lengths} |-> lengths[v.n]]),
            !.key_counts = <<Total(key_counts), 0>>,
            !.size_hint = NumericAnalyzer_analyze_few(
                              [v \in {IntV(n) : n \in DOMAIN key_counts} |-> key_counts[v.n]]),
            !.key_pattern = IF DOMAIN key_counts = {} THEN <<>>
                            ELSE StringPatternAnalyzer_analyze_all(keys),
            !.numeric = numeric, !.pattern = pattern, !.alpha = alpha,
            !.choice = ChoiceAnalyzer_get_hint(values), !.values = values,
            !.nulls = CountOf(st.ed.field_null_counts, field),
            !.present = CountOf(st.ed.field_presence, field),
            !.records = total_records(st, field),
            !.ends = IF field[Len(field)] \in {"[]", "{}"} THEN field[Len(field)] ELSE "name"]

\* field_hints[hint_type] = filtered_hint: the hints of a field keyed by type,
\* a later hint of a type taking the place of an earlier one
RECURSIVE KeyedByType(_)
KeyedByType(hints) ==
    IF hints = <<>> THEN <<>>
    ELSE LET n == Len(hints)
             front == KeyedByType(SubSeq(hints, 1, n - 1))
         IN  IF \E i \in 1..Len(front) : front[i].type = hints[n].type
             THEN [i \in 1..Len(front) |->
                      IF front[i].type = hints[n].type THEN hints[n] ELSE front[i]]
             ELSE Append(front, hints[n])

\* build_json_spec: the fields with hints, each with its hints keyed by type
build_json_spec(st) ==
    LET hinted == {field \in st.ed.field_paths : get_hints(FieldEvidence(st, field)) # <<>>}
    IN  [field \in hinted |-> KeyedByType(get_hints(FieldEvidence(st, field)))]

\* create_spec returns the document of the items taken
CreateSpec ==
    /\ extracted.stage = "items"
    /\ FewValues(extracted.st)
    /\ extracted' = [extracted EXCEPT !.stage = "spec", !.out = build_json_spec(extracted.st)]
    /\ UNCHANGED <<chain, fields, phase, record, emitted, factory, direct>>

\* Factory(spec).build(): load_factory_spec converts the entries of the
\* document, the FactorySpec builds, and no override is applied
BuildFromSpec ==
    /\ extracted.stage = "spec"
    /\ phase = "spec"
    /\ LET doc == extracted.out
       IN  IF \E fp \in DOMAIN doc : create_hints_from_spec_format(doc[fp]).raises # "none"
           THEN /\ fields' = doc
                /\ record' = Built("none", NotRun, NoKids, Raise("KeyError"))
           ELSE LET loaded == [fp \in DOMAIN doc |-> create_hints_from_spec_format(doc[fp]).hints]
                IN  /\ fields' = loaded
                    /\ \E b \in FactorySpec_build(loaded, RecursionLimit) :
                          record' = [b EXCEPT !.out = Factory_build(<<>>, <<>>, <<>>, b.out).out]
    /\ phase' = "built"
    /\ UNCHANGED <<chain, emitted, factory, direct, extracted>>

NextExtract == AnalyzeModel \/ ExtractItem \/ CreateSpec \/ BuildFromSpec

SpecExtract == Init /\ [][NextExtract]_vars

(***************************************************************************)
(* Reading the document create_spec returned and the build made of it.     *)
(***************************************************************************)
SpecMade == extracted.stage = "spec"

\* how many values of the item stand at the path (objects: how many of them
\* are objects), found by following the path through the item
RECURSIVE Reached(_, _, _)
Reached(v, path, objects) ==
    IF path = <<>> THEN (IF objects /\ ~IsDict(v) THEN 0 ELSE 1)
    ELSE IF path[1] = "." THEN Reached(v, Tail(path), objects)
    ELSE IF path[1] = "[]"
    THEN IF IsList(v)
         THEN SumOver([i \in 1..Len(v.xs) |-> Reached(v.xs[i], Tail(path), objects)],
                      1..Len(v.xs))
         ELSE 0
    ELSE IF path[1] = "{}"
    THEN IF IsDict(v)
         THEN SumOver([key \in DOMAIN v.m |-> Reached(v.m[key], Tail(path), objects)],
                      DOMAIN v.m)
         ELSE 0
    ELSE IF IsDict(v) /\ StrV(path[1]) \in DOMAIN v.m
    THEN Reached(v.m[StrV(path[1])], Tail(path), objects)
    ELSE 0

\* the number of times the path was present in the items ...
PresenceOf(P) ==
    SumOver([i \in 1..Len(extracted.items) |-> Reached(extracted.items[i], P, FALSE)],
            1..Len(extracted.items))

\* ... and the number of times its parent was present as an object: every
\* record is the parent of a top-level path
ParentPresenceOf(P) ==
    IF Len(P) = 1 THEN Len(extracted.items)
    ELSE SumOver([i \in 1..Len(extracted.items) |->
                     Reached(extracted.items[i], SubSeq(P, 1, Len(P) - 2), TRUE)],
                 1..Len(extracted.items))

\* the MISSING hints the document has at the path
MissingAt(P) ==
    IF P \in DOMAIN extracted.out
    THEN {extracted.out[P][i] : i \in IndexesOf(extracted.out[P], {"MISSING"})}
    ELSE {}

\* C21: for every observed path P that does not end in [] or {}, the document
\* has a MISSING hint at P exactly when P was present fewer times than its
\* parent was present as an object (the records for a top-level P, the object
\* elements for a parent that is an array element path), and its pct is
\* round((1 - presence/parent) * 100, 3); a path ending in [] or {} has none.
C21_MissingIffBelowParent ==
    SpecMade =>
        \A P \in Evidence.field_paths :
            IF P[Len(P)] \in {"[]", "{}"}
            THEN MissingAt(P) = {}
            ELSE MissingAt(P) =
                    IF PresenceOf(P) < ParentPresenceOf(P)
                    THEN {MissingHint(RoundPct(ParentPresenceOf(P) - PresenceOf(P),
                                               ParentPresenceOf(P)))}
                    ELSE {}

\* a document with a MISSING hint at a path below an array element path whose
\* objects are not as many as the records, and with a nested path that was
\* present in every object of a parent that some record lacks
C21_Witness ==
    /\ SpecMade
    /\ \E P \in Evidence.field_paths :
          /\ Len(P) > 3 /\ P[Len(P) - 2] = "[]"
          /\ MissingAt(P) # {}
          /\ ParentPresenceOf(P) # Len(extracted.items)
    /\ \E P \in Evidence.field_paths :
          /\ Len(P) > 1 /\ P[Len(P)] \notin {"[]", "{}"}
          /\ MissingAt(P) = {}
          /\ ParentPresenceOf(P) < Len(extracted.items)

\* C27: whatever the records, the factory made of the document create_spec
\* returned for them builds a record: build raises no exception.
C27_BuildNeverRaises ==
    (SpecMade /\ Built_) => ~IsRaise(record.out)

\* the hint lists of the document that stand at a dynamic OBJECT node
ObjectLists == {extracted.out[P] : P \in {Q \in DOMAIN extracted.out :
                                             "OBJECT" \in TypesOf(extracted.out[Q])}}

\* C28: the hint list create_spec emits for a dynamic OBJECT node (OBJECT,
\* the size NUMBER, the key-pattern hint if any, NULL and MISSING if any),
\* run as a chain, returns a sentinel or an integer, whatever the key-pattern
\* hint is, NUMSTR for keys that are all digit strings included: the check of
\* the node for an integer size never fails.
C28_SizeChainReturnsInt ==
    SpecMade =>
        \A hints \in ObjectLists :
            \A size \in ChainResults(hints) : IsSentinel(size) \/ IsInt(size)

(***************************************************************************)
(* Specification of the numeric analysis: NumericAnalyzer.analyze_all on a *)
(* sample, with what the fit and the KS test of every fitter reported.     *)
(***************************************************************************)
AnalyzeNumbers ==
    /\ emitted.stage = "lengths"
    /\ \E sample \in Samples :
       \E verdicts \in IF Cardinality(Distinct(sample)) < 2
                       THEN {[i \in 1..Len(DISTRIBUTION_FITTERS) |-> "none"]}
                       ELSE VerdictVectors(detect_outliers(sample).data_without_extreme_outliers) :
          emitted' = [emitted EXCEPT !.stage = "numbers", !.lengths = sample,
                                     !.verdicts = verdicts,
                                     !.numeric = NumericAnalyzer_analyze_all(sample, verdicts)]
    /\ UNCHANGED <<chain, fields, phase, record, factory, direct, extracted>>

NextNumeric == AnalyzeNumbers

SpecNumeric == Init /\ [][NextNumeric]_vars

\* the data the fitters of the last analysis were given
FitData == detect_outliers(emitted.lengths).data_without_extreme_outliers

\* the support condition of a fitter
SupportMet(fitter, fit) ==
    CASE fitter.support = "positive" -> Smallest(fit) > 0
      [] fitter.support = "nonnegative" -> Smallest(fit) >= 0
      [] fitter.support = "unit" -> Smallest(fit) >= 0 /\ Largest(fit) <= 1
      [] OTHER -> TRUE

\* the candidates that qualify: enough samples, support met, fit accepted
\* with a KS statistic that is a number
Qualifying ==
    {i \in 1..Len(DISTRIBUTION_FITTERS) :
        /\ Size(FitData) >= DISTRIBUTION_FITTERS[i].least
        /\ SupportMet(DISTRIBUTION_FITTERS[i], FitData)
        /\ emitted.verdicts[i] \in {"low", "high"}}

\* ... and those of them no other has a lower KS statistic than
LowestKS ==
    {i \in Qualifying :
        \A j \in Qualifying : ~(emitted.verdicts[j] = "low" /\ emitted.verdicts[i] = "high")}

\* the hint a candidate stands for: its rounded bounds, a constant when they
\* are the same number
CandidateHint(i) ==
    LET fitter == DISTRIBUTION_FITTERS[i]
        lo == IF fitter.bounds = "fit" THEN Smallest(FitData)
              ELSE detect_outliers(emitted.lengths).iqr_lower
        hi == IF fitter.bounds = "fit" THEN Largest(FitData)
              ELSE detect_outliers(emitted.lengths).iqr_upper
    IN  IF lo = hi THEN <<ConstantValueHint(IntV(lo))>> ELSE <<NumberHint(lo, hi)>>

\* C26: for a sample of more than one distinct number the hint stored is that
\* of a qualifying candidate with the lowest KS statistic, the candidates
\* whose fit fails being skipped; when no candidate qualifies it is the plain
\* NUMBER hint with the observed minimum and maximum.
C26_LowestQualifyingWins ==
    (emitted.stage = "numbers" /\ Cardinality(Distinct(emitted.lengths)) > 1) =>
        IF Qualifying = {}
        THEN emitted.numeric = <<NumberHint(Smallest(emitted.lengths), Largest(emitted.lengths))>>
        ELSE \E i \in LowestKS : emitted.numeric = CandidateHint(i)

(***************************************************************************)
(* Specification of shared payloads: a factory of one field f whose hint   *)
(* holds objects or lists builds several times.  ConstantValueHint and     *)
(* ChoiceHint hand on the object they hold, not a copy of it, and          *)
(* _apply_overrides copies only the top level of the record (dict(data)):  *)
(* the value of f in a record is the object the hint holds until an        *)
(* override puts another value at f.  factory.vals is what the objects of  *)
(* the hint hold now; a record returned remembers which of them is its f   *)
(* (ref, 0 for none).                                                      *)
(***************************************************************************)
\* most builds of one factory
MaxBuilds == 2

A1 == Obj1("a", IntV(1))
A3 == Obj1("a", IntV(3))

SharedHints ==
    {ConstantValueHint(A1), ConstantValueHint(List(<<A1>>)), ChoiceHint(<<A1, A3>>)}

\* the dicts of overrides a build is given: none, one that replaces f, and
\* one that sets a key or an index inside f
SharedOverrides ==
    {<<>>,
     <<[key |-> <<"f">>, value |-> StrV("build_override")]>>,
     <<[key |-> <<"f", "a">>, value |-> IntV(2)]>>,
     <<[key |-> <<"f", "b">>, value |-> IntV(2)]>>,
     <<[key |-> <<"f", "0">>, value |-> IntV(2)]>>}

\* Factory(spec) of a document with the hint for f
Factory_shared ==
    /\ factory.stage = "none"
    /\ \E hint \in SharedHints :
          factory' = [factory EXCEPT !.stage = "shared", !.hint = hint, !.vals = hint.vals]
    /\ UNCHANGED <<chain, fields, phase, record, emitted, direct, extracted>>

\* the field hints of the factory, its hint holding what its objects hold now
SharedFields == (<<"f">> :> <<[factory.hint EXCEPT !.vals = factory.vals]>>)

\* an override that is set through _set_nested_value_from_parts goes into the
\* objects below the top level of the record
SetsInside(override) == \E i \in 1..Len(override) : Len(override[i].key) > 1

\* ... and one that is set at the top level puts its value into the copy
SetsAtTop(override) == \E i \in 1..Len(override) : Len(override[i].key) = 1

\* factory.build(override): the record returned, and what the object of the
\* hint that is the record's f holds after the overrides were set in it
Factory_build_shared ==
    /\ factory.stage = "shared"
    /\ Len(factory.built) < MaxBuilds
    /\ \E override \in SharedOverrides :
       \E b \in FactorySpec_build(SharedFields, RecursionLimit) :
          LET ref == CHOOSE i \in 1..Len(factory.vals) : factory.vals[i] = b.out.m[StrV("f")]
              out == Factory_build(<<>>, override, <<>>, b.out).out
          IN  factory' = [factory EXCEPT
                  !.vals = IF SetsInside(override) /\ ~IsRaise(out)
                           THEN [@ EXCEPT ![ref] = out.m[StrV("f")]] ELSE @,
                  !.built = Append(@, [override |-> override, out |-> out,
                                       ref |-> IF SetsAtTop(override) \/ IsRaise(out)
                                               THEN 0 ELSE ref])]
    /\ UNCHANGED <<chain, fields, phase, record, emitted, direct, extracted>>

NextShared == Factory_shared \/ Factory_build_shared

SpecShared == Init /\ [][NextShared]_vars

\* the i-th record returned, as it is now
RecordNow(i) ==
    LET r == factory.built[i]
    IN  IF r.ref = 0 THEN r.out ELSE DictPut(r.out, "f", factory.vals[r.ref])

\* C29: overrides never change what a hint holds nor another record: the
\* objects of the CONST or CHOICE hint hold what they held when the factory
\* was made, a build without overrides returns f with one of those values,
\* and every record returned is still what it was when it was returned.
C29_OverridesLeaveHintAlone ==
    factory.stage = "shared" =>
        /\ factory.vals = factory.hint.vals
        /\ \A i \in 1..Len(factory.built) :
              /\ RecordNow(i) = factory.built[i].out
              /\ factory.built[i].override = <<>> =>
                    \E j \in 1..Len(factory.hint.vals) :
                        factory.built[i].out.m[StrV("f")] = factory.hint.vals[j]

====
